---- MODULE Spec2Model ----
(***************************************************************************)
(* Cache-aside data-access layer of production-api-framework:              *)
(* CacheService (cache.service.ts), UserService / TaskService              *)
(* (user.service.ts, task.service.ts), BaseRepository / UserRepository /   *)
(* TaskRepository and the Redis client handle (redis.config.ts).           *)
(*                                                                         *)
(* Every service call is a sequence of steps, one per awaited store or     *)
(* cache round-trip; the steps of different calls interleave freely.       *)
(***************************************************************************)
EXTENDS Integers, Sequences, FiniteSets, TLC

(* ---------------------------------------------------------------- bounds *)
\* calls made in one behaviour of Spec (one call at a time, healthy backends)
MaxOps == 2
\* calls made in one behaviour of SpecFail (one call at a time, failing backends)
MaxFailOps == 1
\* calls made in one behaviour of SpecConc (interleaved calls)
MaxConcOps == 2
\* cached reads made in one behaviour of SpecReads (interleaved reads)
MaxReads == 2
\* password changes per Subject (each one stores a new hash)
MaxPw == 1
\* cache calls made in one behaviour of SpecCache (interleaved calls)
MaxCacheOps == 2
\* largest magnitude of the counter increment / decrement work on
MaxCount == 1
\* calls made in one behaviour of SpecUsers (interleaved user calls)
MaxUserOps == 2
\* the largest page number a list request asks for
MaxPage == 3
\* calls made in one behaviour of SpecStats (task operations and list reads)
MaxStatOps == 3
\* the largest maxRetries initializeDatabase is called with, and the calls
\* of it in one behaviour
MaxRetriesArg == 4
MaxBootCalls == 2
\* requests in flight when the shutdown signal arrives
MaxInflight == 2

(* ------------------------------------------------------ program constants *)
\* CacheTTL.SHORT / MEDIUM / LONG, in seconds
TTL_SHORT == 60
TTL_MEDIUM == 300
TTL_LONG == 900
\* what CacheService.ttl returns when the command fails
TtlOnError == -1
\* the default amount of increment / decrement
DefaultAmount == 1
\* page and limit when the query has none, and the validator's limit ceiling
DefaultPage == 1
DefaultLimit == 10
MaxLimit == 100
\* initializeDatabase(maxRetries = 3)
DefaultMaxRetries == 3
\* gracefulShutdown: forced exit after this many milliseconds
ForceTimeout == 10000

(* ------------------------------------------------------------ the universe *)
Users == {"u1", "u2"}
Tasks == {"t1", "t2"}
Emails == {"e1", "e2"}
\* email addresses as callers type them: the stored forms and " E1", which
\* differs from "e1" in case and surrounding blanks only
RawEmails == Emails \cup {" E1"}
Opts == {"o1", "o2"}
Procs == {"p1", "p2"}
NoUser == "nouser"
Unset == "unset"
Hidden == -1
UserStatuses == {"ACTIVE", "INACTIVE"}
TaskStatuses == {"TODO", "DONE"}

\* PaginationOptions of the two list queries the model issues
OptPage(o) == 1
OptLimit(o) == IF o = "o1" THEN 1 ELSE 10

VARIABLES
  users,      \* users table: id -> row (st = none | live | deleted)
  tasks,      \* tasks table: id -> row
  cache,      \* Redis keyspace: key -> {} or {[val, ttl]}
  pc,         \* per call: the awaited step it is at
  op,         \* per call: operation and arguments
  loc,        \* per call: local variables
  todo,       \* per call: cache commands still to be issued by invalidate*
  res,        \* per call: outcome and returned value
  gh,         \* per call: history of this call (observations only)
  produced,   \* history: (key, value) of every successful producer invocation
  nops,       \* operations started so far
  life        \* the process: database bootstrap and shutdown

vars == <<users, tasks, cache, pc, op, loc, todo, res, gh,
          produced, nops, life>>

(* ------------------------------------------------------------------ keys *)
UserKey(u) == [kind |-> "user", id |-> u, opt |-> "-"]
TaskKey(t) == [kind |-> "task", id |-> t, opt |-> "-"]
UserTasksKey(u, o) == [kind |-> "user_tasks", id |-> u, opt |-> o]
StatsKey(u) == [kind |-> "task_stats", id |-> u, opt |-> "-"]
\* a key holding a number, as increment / decrement use it
CounterKey == [kind |-> "counter", id |-> "-", opt |-> "-"]

Keys ==
  {UserKey(u) : u \in Users} \cup {TaskKey(t) : t \in Tasks}
    \cup {UserTasksKey(u, o) : u \in Users, o \in Opts}
    \cup {StatsKey(u) : u \in Users}
    \cup {CounterKey}

\* faulty variant: the pattern is user_tasks:*
MatchesAnyUserTasks(k, u) == k.kind = "user_tasks"

\* redis.keys(`user_tasks:${userId}:*`)
MatchesUserTasks(k, u) == k.kind = "user_tasks" /\ k.id = u

(* ------------------------------------------------------------ entity values *)
\* email.toLowerCase().trim(), on the addresses of the model
Normalize(e) == IF e = " E1" THEN "e1" ELSE e

NoUserRow == [st |-> "none", email |-> "e1", status |-> "ACTIVE", pw |-> 0]
NoTaskRow ==
  [st |-> "none", assigneeId |-> NoUser, status |-> "TODO", createdById |-> "u1"]

UserOf(u, row) ==
  [id |-> u, email |-> row.email, status |-> row.status, pw |-> row.pw]

\* User.toJSON drops passwordHash
UserToJSON(v) == [v EXCEPT !.pw = Hidden]

\* a Task entity as returned by create / findOne without relations
TaskOf(t, row) ==
  [id |-> t, assigneeId |-> row.assigneeId, status |-> row.status,
   createdById |-> row.createdById, loaded |-> FALSE,
   assignee |-> <<>>, createdBy |-> <<>>]

\* faulty variant: a soft-deleted row counts as found
StoredTask(t) == t \in Tasks /\ tasks[t].st # "none"

LiveUser(u) == u \in Users /\ users[u].st = "live"
LiveTask(t) == t \in Tasks /\ tasks[t].st = "live"

\* a joined relation: the referenced live row, or null
Relation(u) == IF LiveUser(u) THEN <<UserOf(u, users[u])>> ELSE <<>>

\* findOne({where: {id}, relations: ['assignee', 'createdBy']})
TaskWithRelations(t) ==
  [TaskOf(t, tasks[t]) EXCEPT !.loaded = TRUE,
                              !.assignee = Relation(tasks[t].assigneeId),
                              !.createdBy = Relation(tasks[t].createdById)]

TaskToJSON(v) ==
  [v EXCEPT !.assignee = [i \in DOMAIN v.assignee |-> UserToJSON(v.assignee[i])],
            !.createdBy = [i \in DOMAIN v.createdBy |-> UserToJSON(v.createdBy[i])]]


(* ------------------------------------------------------------ repositories *)
Min(a, b) == IF a < b THEN a ELSE b
CeilDiv(a, b) == (a + b - 1) \div b

\* the order in which the store returns task rows (no ORDER BY is given)
TaskOrder == <<"t1", "t2">>

\* TaskRepository.findByAssignee: rows matching {assigneeId: userId}
AssignedTo(u) ==
  SelectSeq(TaskOrder, LAMBDA t : LiveTask(t) /\ tasks[t].assigneeId = u)

\* faulty variant: the window always starts at the first row
FindAllFromStart(matching, page, limit) ==
  LET total == Len(matching)
      window == SubSeq(matching, 1, Min(total, limit))
      totalPages == CeilDiv(total, limit)
  IN [data |-> [i \in DOMAIN window |-> TaskWithRelations(window[i])],
      pagination |-> [page |-> page, limit |-> limit, total |-> total,
                      totalPages |-> totalPages,
                      hasNext |-> page < totalPages,
                      hasPrevious |-> page > 1]]

\* BaseRepository.findAll: skip/take window and pagination block
FindAll(matching, page, limit) ==
  LET skip == (page - 1) * limit
      total == Len(matching)
      window == SubSeq(matching, skip + 1, Min(total, skip + limit))
      totalPages == CeilDiv(total, limit)
  IN [data |-> [i \in DOMAIN window |-> TaskWithRelations(window[i])],
      pagination |-> [page |-> page, limit |-> limit, total |-> total,
                      totalPages |-> totalPages,
                      hasNext |-> page < totalPages,
                      hasPrevious |-> page > 1]]

CountWhere(u, s) ==
  Cardinality({t \in Tasks : LiveTask(t) /\ tasks[t].assigneeId = u
                              /\ tasks[t].status = s})

\* TaskRepository.getUserTaskStats (the due-date count is not modelled)
UserTaskStats(u) ==
  [total |-> Cardinality({t \in Tasks : LiveTask(t) /\ tasks[t].assigneeId = u}),
   todo |-> CountWhere(u, "TODO"),
   inProgress |-> CountWhere(u, "IN_PROGRESS"),
   done |-> CountWhere(u, "DONE")]

\* The callback each service read hands to getOrSet, run against the store:
\* <<value>>, or <<>> when the callback throws "not found".
Producer(k) ==
  CASE k.kind = "user" ->
         IF LiveUser(k.id) THEN <<UserOf(k.id, users[k.id])>> ELSE <<>>
    [] k.kind = "task" ->
         IF LiveTask(k.id) THEN <<TaskWithRelations(k.id)>> ELSE <<>>
    [] k.kind = "user_tasks" ->
         <<FindAll(AssignedTo(k.id), OptPage(k.opt), OptLimit(k.opt))>>
    [] OTHER -> <<UserTaskStats(k.id)>>

(* ------------------------------------------------------------ CacheService *)
\* JSON.stringify(value) followed, on the read side, by JSON.parse
Serialize(kind, v) ==
  CASE kind = "user" -> UserToJSON(v)
    [] kind = "task" -> TaskToJSON(v)
    [] kind = "user_tasks" ->
         [v EXCEPT !.data = [i \in DOMAIN v.data |-> TaskToJSON(v.data[i])]]
    [] OTHER -> v

\* In the operators below, ok says whether the Redis command was answered:
\* it is FALSE when getRedisClient() throws (client null) or the command
\* rejects; CacheService catches both in the same handler.

\* CacheService.get: <<value>> on a hit, <<>> on a miss or on any error
CacheGet(k, ok) ==
  IF ok /\ cache[k] # {}
    THEN <<(CHOOSE e \in cache[k] : TRUE).val>>
    ELSE <<>>

\* faulty variant: a write over an existing entry keeps the old entry's
\* counters (a field-wise merge instead of a replacement)
SetexMixes(old, new) ==
  IF old = {} THEN new
  ELSE LET o == (CHOOSE e \in old : TRUE).val
       IN IF "total" \in DOMAIN new /\ "total" \in DOMAIN o
            THEN [new EXCEPT !.total = o.total]
          ELSE IF "pagination" \in DOMAIN new /\ "pagination" \in DOMAIN o
            THEN [new EXCEPT !.pagination = o.pagination]
          ELSE new

\* what redis.setex stores: the whole serialized value replaces the old one
SetexValue(old, new) == new

\* CacheService.set: the keyspace after it (unchanged when the command fails)
CacheSet(k, v, ttl, ok) ==
  IF ok
    THEN [cache EXCEPT ![k] =
            {[val |-> SetexValue(cache[k], Serialize(k.kind, v)), ttl |-> ttl]}]
    ELSE cache

\* CacheService.del / redis.del(...keys): the keyspace after it
CacheDel(ks, ok) ==
  IF ok THEN [k \in Keys |-> IF k \in ks THEN {} ELSE cache[k]] ELSE cache

\* faulty variant: the sweep deletes whatever matches when the del is issued
AllMatching(found, u) == {k \in Keys : MatchesUserTasks(k, u)}

\* delPattern: redis.del(...keys) is given the keys its redis.keys returned
DelPatternTargets(found, u) == found

\* CacheService.del: whether redis.del removed the key
CacheDelResult(k, ok) == ok /\ cache[k] # {}

\* redis.del(...keys): the number of keys removed; 0 from the catch block
DelCount(ks, ok) == IF ok THEN Cardinality({k \in ks : cache[k] # {}}) ELSE 0

\* faulty variant: the answer does not depend on the command being answered
ExistsIgnoresError(k, ok) == cache[k] # {}

\* CacheService.exists
CacheExists(k, ok) == ok /\ cache[k] # {}

\* CacheService.ttl: redis.ttl answers -2 for a missing key and -1 for a key
\* without expiry
CacheTtl(k, ok) ==
  IF ~ok THEN TtlOnError
  ELSE IF cache[k] = {} THEN -2
  ELSE (CHOOSE e \in cache[k] : TRUE).ttl

\* redis.incrby / decrby: the keyspace after it (a missing key counts as 0,
\* the key gets no expiry)
CounterValue == IF cache[CounterKey] = {} THEN 0
                ELSE (CHOOSE e \in cache[CounterKey] : TRUE).val
CacheIncrBy(amount) ==
  [cache EXCEPT ![CounterKey] = {[val |-> CounterValue + amount, ttl |-> -1]}]

\* faulty variant: only the user record is deleted
InvalidateUserOnly(u) == << [cmd |-> "del", key |-> UserKey(u)] >>

\* the commands CacheService.invalidateUserCache issues, in order
InvalidateUserCache(u) ==
  << [cmd |-> "del", key |-> UserKey(u)],
     [cmd |-> "keys", key |-> UserKey(u)],
     [cmd |-> "delkeys", key |-> UserKey(u)],
     [cmd |-> "del", key |-> StatsKey(u)] >>

\* the commands CacheService.invalidateTaskCache issues
InvalidateTaskCache(t) == << [cmd |-> "del", key |-> TaskKey(t)] >>

\* faulty variant: every entry gets the short lifetime
TTLAlwaysShort(k) == TTL_SHORT

\* the ttl each service read passes to getOrSet
TTLOf(k) ==
  CASE k.kind = "user" -> TTL_LONG
    [] k.kind = "task" -> TTL_MEDIUM
    [] OTHER -> TTL_SHORT


(* ------------------------------------------------------------- operations *)
MkOp(name, uid, tid, opt, email, status, asg, flag) ==
  [name |-> name, uid |-> uid, tid |-> tid, opt |-> opt, email |-> email,
   status |-> status, asg |-> asg, flag |-> flag]

ReadOps ==
  {MkOp("findUserById", u, "-", "-", Unset, Unset, Unset, TRUE) : u \in Users}
    \cup {MkOp("findTaskById", "-", t, "-", Unset, Unset, Unset, TRUE) : t \in Tasks}
    \cup {MkOp("findByAssignee", u, "-", o, Unset, Unset, Unset, TRUE) :
            u \in Users, o \in Opts}
    \cup {MkOp("getUserTaskStats", u, "-", "-", Unset, Unset, Unset, TRUE) :
            u \in Users}

UserMutations ==
  {MkOp("createUser", "-", "-", "-", e, Unset, Unset, TRUE) : e \in Emails}
    \cup {MkOp("updateUser", u, "-", "-", e, Unset, Unset, TRUE) :
            u \in Users, e \in Emails}
    \cup {MkOp("updateUser", u, "-", "-", Unset, s, Unset, TRUE) :
            u \in Users, s \in UserStatuses}
    \cup {MkOp("changePassword", u, "-", "-", Unset, Unset, Unset, f) :
            u \in Users, f \in BOOLEAN}
    \cup {MkOp("deactivateUser", u, "-", "-", Unset, Unset, Unset, TRUE) : u \in Users}
    \cup {MkOp("deleteUser", u, "-", "-", Unset, Unset, Unset, TRUE) : u \in Users}

TaskMutations ==
  {MkOp("createTask", u, "-", "-", Unset, Unset, a, TRUE) :
     u \in Users, a \in Users \cup {Unset}}
    \cup {MkOp("updateTask", "-", t, "-", Unset, s, Unset, TRUE) :
            t \in Tasks, s \in TaskStatuses}
    \cup {MkOp("updateTask", "-", t, "-", Unset, Unset, a, TRUE) :
            t \in Tasks, a \in Users}
    \cup {MkOp("updateStatus", "-", t, "-", Unset, s, Unset, TRUE) :
            t \in Tasks, s \in TaskStatuses}
    \cup {MkOp("assignTask", u, t, "-", Unset, Unset, Unset, TRUE) :
            t \in Tasks, u \in Users}
    \cup {MkOp("unassignTask", "-", t, "-", Unset, Unset, Unset, TRUE) : t \in Tasks}
    \cup {MkOp("deleteTask", "-", t, "-", Unset, Unset, Unset, TRUE) : t \in Tasks}

Ops == ReadOps \cup UserMutations \cup TaskMutations

ReadNames == {"findUserById", "findTaskById", "findByAssignee", "getUserTaskStats"}
UserOpNames ==
  {"findUserById", "createUser", "updateUser", "changePassword",
   "deactivateUser", "deleteUser"}
IsUserOp(o) == o.name \in UserOpNames

\* the cache key of the getOrSet a service read (or updateUser's findById) issues
KeyOf(o) ==
  CASE o.name \in {"findUserById", "updateUser"} -> UserKey(o.uid)
    [] o.name = "findTaskById" -> TaskKey(o.tid)
    [] o.name = "findByAssignee" -> UserTasksKey(o.uid, o.opt)
    [] OTHER -> StatsKey(o.uid)

\* the first awaited step of each service method
FirstStep(o) ==
  CASE o.name \in ReadNames \cup {"updateUser"} -> "get"
    [] o.name = "createUser" -> "cu_find"
    [] o.name = "createTask" -> "ct_create"
    [] o.name \in {"changePassword", "updateTask", "unassignTask", "deleteTask"}
         -> "pre"
    [] o.name = "deleteUser" -> "softdel"
    [] OTHER -> "load"

NoLoc == [key |-> UserKey("u1"), val |-> <<>>, pre |-> <<>>, ent |-> <<>>,
          keys |-> {}, id |-> "-"]
NoRes == [out |-> "-", val |-> <<>>]
\* prod: producer invocations; first: outcome of the first one; hit: the key was
\* read and present at getOrSet's get; wrote / wfail: the store write succeeded /
\* failed; csets: keys written to the cache; dsets: those written by a
\* cacheService.set outside getOrSet; cdel: a del was issued; early: a del was
\* issued before the store write; removed: keys a del removed; cok / cfail: a
\* cache command succeeded / failed
\* left: the matching keys in the cache when a delPattern call returned
NoGh == [prod |-> 0, first |-> "-", hit |-> FALSE, wrote |-> FALSE,
         wfail |-> FALSE, csets |-> {}, dsets |-> {}, cdel |-> FALSE,
         early |-> FALSE, removed |-> {}, cok |-> FALSE, cfail |-> FALSE,
         left |-> {}]
\* the process is up: bootstrap is over, no shutdown was asked for
NoLife == [stage |-> "up"]
NoOp == MkOp("-", "-", "-", "-", Unset, Unset, Unset, TRUE)

Idle(p) == pc[p] \in {"idle", "done"}

\* ids come from the store (uuid): the model has as many ids as rows, so a
\* create starts only while a free row is left for it and for every create
\* already in flight
FreeUsers == {u \in Users : users[u].st = "none"}
FreeTasks == {t \in Tasks : tasks[t].st = "none"}
CanStart(p, o) ==
  /\ o.name = "createUser" =>
       Cardinality(FreeUsers) >
         Cardinality({q \in Procs \ {p} : ~Idle(q) /\ op[q].name = "createUser"})
  /\ o.name = "createTask" =>
       FreeTasks # {} /\ \A q \in Procs \ {p} : Idle(q) \/ op[q].name # "createTask"
  /\ o.name = "changePassword" => users[o.uid].pw < MaxPw

\* a request enters a service method
Begin(p, o) ==
  /\ Idle(p)
  /\ CanStart(p, o)
  /\ op' = [op EXCEPT ![p] = o]
  /\ pc' = [pc EXCEPT ![p] = FirstStep(o)]
  /\ loc' = [loc EXCEPT ![p] = [NoLoc EXCEPT !.key = KeyOf(o)]]
  /\ todo' = [todo EXCEPT ![p] = <<>>]
  /\ res' = [res EXCEPT ![p] = NoRes]
  /\ gh' = [gh EXCEPT ![p] = NoGh]
  /\ nops' = nops + 1
  /\ UNCHANGED <<users, tasks, cache, produced, life>>

(* ------------------------------------------------------------------- Init *)
\* The store as the seed script leaves it (rows written through the
\* repositories, which never touch the cache) and an empty cache.
InitUsers ==
  {[u \in Users |->
      IF u = "u1" THEN [st |-> "live", email |-> "e1", status |-> "ACTIVE", pw |-> 0]
      ELSE IF both THEN [st |-> "live", email |-> "e2", status |-> "ACTIVE", pw |-> 0]
      ELSE NoUserRow] : both \in BOOLEAN}

InitStore ==
  /\ users \in InitUsers
  /\ \E a \in {NoUser} \cup {u \in Users : users[u].st = "live"} :
       tasks = [t \in Tasks |->
                  IF t = "t1"
                    THEN [st |-> "live", assigneeId |-> a, status |-> "TODO",
                          createdById |-> "u1"]
                    ELSE NoTaskRow]

InitRequests ==
  /\ pc = [p \in Procs |-> "idle"]
  /\ op = [p \in Procs |-> NoOp]
  /\ loc = [p \in Procs |-> NoLoc]
  /\ todo = [p \in Procs |-> <<>>]
  /\ res = [p \in Procs |-> NoRes]
  /\ gh = [p \in Procs |-> NoGh]
  /\ produced = {}
  /\ nops = 0

InitCalls == InitRequests /\ life = NoLife

Init ==
  /\ InitStore
  /\ cache = [k \in Keys |-> {}]
  /\ InitCalls

\* the same store with a cache that earlier list reads may have filled: it is
\* empty, or holds the first list page of u1 as findByAssignee cached it
InitWarm ==
  /\ InitStore
  /\ \E warm \in SUBSET {UserTasksKey("u1", "o1")} :
       cache = [k \in Keys |->
                  IF k \in warm
                    THEN {[val |-> Serialize(k.kind, Producer(k)[1]), ttl |-> TTLOf(k)]}
                    ELSE {}]
  /\ InitCalls


(* ------------------------------------------------- CacheService.getOrSet *)
Fail(p, kind) ==
  /\ pc' = [pc EXCEPT ![p] = "done"]
  /\ res' = [res EXCEPT ![p] = [out |-> kind, val |-> <<>>]]

\* faulty variant: the cached value is never used
IsHitNever(c) == FALSE

\* `cached !== null`
IsHit(c) == c # <<>>

\* getOrSet returns v to the service method that called it: a service read
\* returns it; updateUser goes on to its duplicate-email check or its update
GetOrSetReturn(p, v) ==
  IF op[p].name = "updateUser"
    THEN /\ loc' = [loc EXCEPT ![p].pre = <<v>>]
         /\ pc' = [pc EXCEPT ![p] =
                     IF op[p].email # Unset /\ op[p].email # v.email
                       THEN "uu_check" ELSE "load"]
         /\ UNCHANGED res
    ELSE /\ pc' = [pc EXCEPT ![p] = "done"]
         /\ res' = [res EXCEPT ![p] = [out |-> "ok", val |-> <<v>>]]
         /\ UNCHANGED loc

\* const cached = await this.get(key); if (cached !== null) return cached
GetStep(p, ok) ==
  /\ pc[p] = "get"
  /\ LET c == CacheGet(loc[p].key, ok) IN
       /\ gh' = [gh EXCEPT ![p].cok = @ \/ ok, ![p].cfail = @ \/ ~ok,
                           ![p].hit = ok /\ cache[loc[p].key] # {}]
       /\ IF IsHit(c)
            THEN GetOrSetReturn(p, c[1])
            ELSE /\ pc' = [pc EXCEPT ![p] = "produce"]
                 /\ UNCHANGED <<res, loc>>
  /\ UNCHANGED <<users, tasks, cache, op, todo, produced, nops, life>>

Produced(k, v) == [key |-> k, val |-> Serialize(k.kind, v)]

\* const result = await callback(): a throw lands in getOrSet's catch block
ProduceStep(p, dbok) ==
  /\ pc[p] = "produce"
  /\ LET r == Producer(loc[p].key) IN
       IF dbok /\ r # <<>>
         THEN /\ loc' = [loc EXCEPT ![p].val = r]
              /\ pc' = [pc EXCEPT ![p] = "set"]
              /\ produced' = produced \cup {Produced(loc[p].key, r[1])}
         ELSE /\ pc' = [pc EXCEPT ![p] = "retry"]
              /\ UNCHANGED <<loc, produced>>
  /\ gh' = [gh EXCEPT ![p].prod = @ + 1,
                      ![p].first = IF dbok /\ Producer(loc[p].key) # <<>>
                                     THEN "ok" ELSE "fail"]
  /\ UNCHANGED <<users, tasks, cache, op, todo, res, nops, life>>

\* faulty variant: set lets the error of a failed command escape
SetRethrows(ok) == ok

\* CacheService.set's catch block: a failed command is logged and set
\* returns false, so the caller goes on
SetSwallows(ok) == TRUE

\* await this.set(key, result, ttl); return result
\* (an error escaping set would land in getOrSet's catch block)
SetStep(p, ok) ==
  /\ pc[p] = "set"
  /\ cache' = CacheSet(loc[p].key, loc[p].val[1], TTLOf(loc[p].key), ok)
  /\ gh' = [gh EXCEPT ![p].cok = @ \/ ok, ![p].cfail = @ \/ ~ok,
                      ![p].csets = IF ok THEN @ \cup {loc[p].key} ELSE @]
  /\ IF ok \/ SetSwallows(ok)
       THEN GetOrSetReturn(p, loc[p].val[1])
       ELSE pc' = [pc EXCEPT ![p] = "retry"] /\ UNCHANGED <<res, loc>>
  /\ UNCHANGED <<users, tasks, op, todo, produced, nops, life>>

\* catch (error) { return await callback(); }
RetryStep(p, dbok) ==
  /\ pc[p] = "retry"
  /\ LET r == Producer(loc[p].key) IN
       IF dbok /\ r # <<>>
         THEN /\ GetOrSetReturn(p, r[1])
              /\ produced' = produced \cup {Produced(loc[p].key, r[1])}
         ELSE /\ Fail(p, IF dbok THEN "notfound" ELSE "db")
              /\ UNCHANGED <<loc, produced>>
  /\ gh' = [gh EXCEPT ![p].prod = @ + 1]
  /\ UNCHANGED <<users, tasks, cache, op, todo, nops, life>>

(* ------------------------------------------------------ service mutations *)
TargetId(o) == IF IsUserOp(o) THEN o.uid ELSE o.tid
\* faulty variant: the lookup also finds a soft-deleted row
TargetStored(o) ==
  IF IsUserOp(o) THEN users[o.uid].st # "none" ELSE tasks[o.tid].st # "none"

TargetLive(o) == IF IsUserOp(o) THEN LiveUser(o.uid) ELSE LiveTask(o.tid)
TargetRow(o) == IF IsUserOp(o) THEN users[o.uid] ELSE tasks[o.tid]

\* the service's own lookup: userRepository.findById / taskRepository.findById,
\* then (changePassword) bcrypt.compare of the old password
PreStep(p, dbok) ==
  /\ pc[p] = "pre"
  /\ IF ~dbok THEN Fail(p, "db") /\ UNCHANGED loc
     ELSE IF ~TargetLive(op[p]) THEN Fail(p, "notfound") /\ UNCHANGED loc
     ELSE IF op[p].name = "changePassword" /\ ~op[p].flag
       THEN Fail(p, "invalid") /\ UNCHANGED loc
     ELSE /\ loc' = [loc EXCEPT ![p].pre = <<TargetRow(op[p])>>]
          /\ pc' = [pc EXCEPT ![p] =
                      IF op[p].name = "deleteTask" THEN "softdel" ELSE "load"]
          /\ UNCHANGED res
  /\ UNCHANGED <<users, tasks, cache, op, todo, gh, produced, nops, life>>

\* UserRepository.isEmailTaken(data.email, id)
UuCheckStep(p, dbok) ==
  /\ pc[p] = "uu_check"
  /\ IF ~dbok THEN Fail(p, "db")
     ELSE IF \E u \in Users \ {op[p].uid} :
               LiveUser(u) /\ users[u].email = Normalize(op[p].email)
       THEN Fail(p, "taken")
     ELSE pc' = [pc EXCEPT ![p] = "load"] /\ UNCHANGED res
  /\ UNCHANGED <<users, tasks, cache, op, loc, todo, gh, produced, nops, life>>

\* BaseRepository.update / UserRepository.updatePassword: findById
LoadStep(p, dbok) ==
  /\ pc[p] = "load"
  /\ IF ~dbok THEN Fail(p, "db") /\ UNCHANGED loc
     ELSE IF ~TargetLive(op[p]) THEN Fail(p, "notfound") /\ UNCHANGED loc
     ELSE /\ loc' = [loc EXCEPT ![p].ent = <<TargetRow(op[p])>>]
          /\ pc' = [pc EXCEPT ![p] = "save"]
          /\ UNCHANGED res
  /\ UNCHANGED <<users, tasks, cache, op, todo, gh, produced, nops, life>>

\* repository.merge(entity, data): a property that is undefined is skipped
MergeField(old, new) == IF new = Unset THEN old ELSE new

\* the row repository.save writes for each mutation
SavedRow(o, row) ==
  CASE o.name = "updateUser" ->
         [row EXCEPT !.email = Normalize(MergeField(@, o.email)),
                     !.status = MergeField(@, o.status)]
    [] o.name = "deactivateUser" -> [row EXCEPT !.status = "INACTIVE"]
    [] o.name = "changePassword" -> [row EXCEPT !.pw = @ + 1]
    [] o.name = "updateTask" ->
         [row EXCEPT !.status = MergeField(@, o.status),
                     !.assigneeId = MergeField(@, o.asg)]
    [] o.name = "updateStatus" -> [row EXCEPT !.status = o.status]
    [] o.name = "assignTask" -> [row EXCEPT !.assigneeId = o.uid]
    [] OTHER -> [row EXCEPT !.assigneeId = MergeField(@, Unset)]

\* faulty variant: the store has no constraint
NeverRejected(o, id, row) == FALSE

\* the store's constraints: users.email unique, tasks.assignee_id and
\* tasks.created_by_id reference a row of users
Rejected(o, id, row) ==
  IF IsUserOp(o)
    THEN \E u \in Users \ {id} : users[u].st # "none" /\ users[u].email = row.email
    ELSE \/ row.assigneeId # NoUser /\ users[row.assigneeId].st = "none"
         \/ users[row.createdById].st = "none"

Invalidate(u) == IF u = NoUser THEN <<>> ELSE InvalidateUserCache(u)

\* the invalidation each service method runs after its store write;
\* pre is the row the method read first, new the row it wrote
InvalidationOf(o, pre, new) ==
  CASE o.name \in {"updateUser", "changePassword", "deactivateUser", "deleteUser"}
         -> InvalidateUserCache(o.uid)
    [] o.name = "updateTask" ->
         InvalidateTaskCache(o.tid) \o Invalidate(pre.assigneeId)
           \o (IF o.asg # Unset /\ o.asg # pre.assigneeId
                 THEN InvalidateUserCache(o.asg) ELSE <<>>)
    [] o.name = "updateStatus" ->
         InvalidateTaskCache(o.tid) \o Invalidate(new.assigneeId)
    [] o.name = "assignTask" ->
         InvalidateTaskCache(o.tid) \o InvalidateUserCache(o.uid)
    [] o.name \in {"unassignTask", "deleteTask"} ->
         InvalidateTaskCache(o.tid) \o Invalidate(pre.assigneeId)
    [] OTHER -> Invalidate(new.assigneeId)

\* what the method returns once its invalidation is through
Returned(o, id, row) ==
  CASE o.name \in {"changePassword", "deactivateUser", "deleteUser", "deleteTask"}
         -> <<>>
    [] IsUserOp(o) -> <<UserOf(id, row)>>
    [] OTHER -> <<TaskOf(id, row)>>

PreOf(p) == IF loc[p].pre = <<>> THEN NoTaskRow ELSE loc[p].pre[1]

\* faulty variant: the invalidation also runs when the store write threw
InvalidateOnError(o, pre) == InvalidationOf(o, pre, pre)

\* the cache commands a service method issues when its store write throws:
\* its catch block logs and rethrows, the invalidation is skipped
OnWriteError(o, pre) == <<>>

\* the store write of the call p threw
WriteFails(p, kind) ==
  LET inv == OnWriteError(op[p], PreOf(p))
  IN /\ gh' = [gh EXCEPT ![p].wfail = TRUE]
     /\ todo' = [todo EXCEPT ![p] = inv]
     /\ pc' = [pc EXCEPT ![p] = IF inv = <<>> THEN "done" ELSE "inv"]
     /\ res' = [res EXCEPT ![p] = [out |-> kind, val |-> <<>>]]

\* faulty variant: save refuses an entity loaded before another commit
StaleEntity(stored, loaded) == stored # loaded

\* the entities carry no version column: save never compares the stored row
\* with the one findById loaded
VersionConflict(stored, loaded) == FALSE

\* BaseRepository.update / updatePassword: repository.save(merged)
SaveStep(p, dbok) ==
  /\ pc[p] = "save"
  /\ LET o == op[p]
         id == TargetId(o)
         new == SavedRow(o, loc[p].ent[1])
     IN IF \/ ~dbok
           \/ Rejected(o, id, new)
           \/ VersionConflict(TargetRow(o), loc[p].ent[1])
          THEN /\ WriteFails(p, IF dbok THEN "conflict" ELSE "db")
               /\ UNCHANGED <<users, tasks>>
          ELSE /\ users' = IF IsUserOp(o) THEN [users EXCEPT ![id] = new] ELSE users
               /\ tasks' = IF IsUserOp(o) THEN tasks ELSE [tasks EXCEPT ![id] = new]
               /\ gh' = [gh EXCEPT ![p].wrote = TRUE]
               /\ todo' = [todo EXCEPT ![p] = InvalidationOf(o, PreOf(p), new)]
               /\ pc' = [pc EXCEPT ![p] = "inv"]
               /\ res' = [res EXCEPT ![p] = [out |-> "-", val |-> Returned(o, id, new)]]
  /\ UNCHANGED <<cache, op, loc, produced, nops, life>>

\* faulty variant: the row is removed instead of marked
Removed(row) == [row EXCEPT !.st = "none"]

\* BaseRepository.softDelete: repository.softDelete(id) is
\* UPDATE ... SET deleted_at = now WHERE id = $1 (a row already soft-deleted
\* stays soft-deleted, a missing row stays missing)
SoftDeleted(row) == IF row.st = "live" THEN [row EXCEPT !.st = "deleted"] ELSE row

SoftDelStep(p, dbok) ==
  /\ pc[p] = "softdel"
  /\ LET o == op[p]
         id == TargetId(o)
     IN IF ~dbok
          THEN /\ WriteFails(p, "db")
               /\ UNCHANGED <<users, tasks>>
          ELSE /\ users' = IF IsUserOp(o)
                             THEN [users EXCEPT ![id] = SoftDeleted(@)] ELSE users
               /\ tasks' = IF IsUserOp(o)
                             THEN tasks ELSE [tasks EXCEPT ![id] = SoftDeleted(@)]
               /\ gh' = [gh EXCEPT ![p].wrote = TRUE]
               /\ todo' = [todo EXCEPT ![p] = InvalidationOf(o, PreOf(p), PreOf(p))]
               /\ pc' = [pc EXCEPT ![p] = "inv"]
               /\ res' = [res EXCEPT ![p] = [out |-> "-", val |-> <<>>]]
  /\ UNCHANGED <<cache, op, loc, produced, nops, life>>


\* one Redis command of invalidateUserCache / invalidateTaskCache:
\* del(key), or delPattern's keys(pattern) and del(...keys)
InvStep(p, ok) ==
  /\ pc[p] = "inv"
  /\ todo[p] # <<>>
  /\ LET c == Head(todo[p])
         found == IF ok
                    THEN {k \in Keys : MatchesUserTasks(k, c.key.id) /\ cache[k] # {}}
                    ELSE {}
         gone == CASE c.cmd = "del" -> {c.key}
                   [] c.cmd = "delkeys" -> DelPatternTargets(loc[p].keys, c.key.id)
                   [] OTHER -> {}
         rest == IF c.cmd = "keys" /\ found = {}
                   THEN Tail(Tail(todo[p])) ELSE Tail(todo[p])
     IN /\ cache' = CacheDel(gone, ok)
        /\ loc' = IF c.cmd = "keys" THEN [loc EXCEPT ![p].keys = found] ELSE loc
        /\ gh' = [gh EXCEPT ![p].cok = @ \/ ok, ![p].cfail = @ \/ ~ok,
                            ![p].cdel = @ \/ c.cmd # "keys",
                            ![p].early = @ \/ (c.cmd # "keys" /\ ~gh[p].wrote),
                            ![p].removed =
                              IF ok THEN @ \cup {k \in gone : cache[k] # {}} ELSE @]
        /\ todo' = [todo EXCEPT ![p] = rest]
        /\ pc' = [pc EXCEPT ![p] = IF rest = <<>> THEN "done" ELSE "inv"]
        /\ res' = [res EXCEPT ![p].out = IF rest = <<>> /\ @ = "-" THEN "ok" ELSE @]
  /\ UNCHANGED <<users, tasks, op, produced, nops, life>>

\* UserService.createUser: userRepository.findByEmail(data.email)
CuFindStep(p, dbok) ==
  /\ pc[p] = "cu_find"
  /\ IF ~dbok THEN Fail(p, "db")
     ELSE IF \E u \in Users : LiveUser(u) /\ users[u].email = Normalize(op[p].email)
       THEN Fail(p, "taken")
     ELSE pc' = [pc EXCEPT ![p] = "cu_create"] /\ UNCHANGED res
  /\ UNCHANGED <<users, tasks, cache, op, loc, todo, gh, produced, nops, life>>

\* (the BeforeInsert hook normalizes the address)
NewUserRow(o) ==
  [st |-> "live", email |-> Normalize(o.email), status |-> "ACTIVE", pw |-> 0]
NewTaskRow(o) ==
  [st |-> "live", assigneeId |-> IF o.asg = Unset THEN NoUser ELSE o.asg,
   status |-> "TODO", createdById |-> o.uid]

\* UserService.createUser: userRepository.create(...)
CuCreateStep(p, dbok) ==
  /\ pc[p] = "cu_create"
  /\ FreeUsers # {}
  /\ LET id == CHOOSE u \in FreeUsers : TRUE
         new == NewUserRow(op[p])
     IN IF ~dbok \/ Rejected(op[p], id, new)
          THEN /\ Fail(p, IF dbok THEN "conflict" ELSE "db")
               /\ gh' = [gh EXCEPT ![p].wfail = TRUE]
               /\ UNCHANGED <<users, loc>>
          ELSE /\ users' = [users EXCEPT ![id] = new]
               /\ loc' = [loc EXCEPT ![p].id = id, ![p].val = <<UserOf(id, new)>>]
               /\ gh' = [gh EXCEPT ![p].wrote = TRUE]
               /\ pc' = [pc EXCEPT ![p] = "cu_set"]
               /\ UNCHANGED res
  /\ UNCHANGED <<tasks, cache, op, todo, produced, nops, life>>

\* UserService.createUser: cacheService.set(`user:${user.id}`, user, LONG)
CuSetStep(p, ok) ==
  /\ pc[p] = "cu_set"
  /\ cache' = CacheSet(UserKey(loc[p].id), loc[p].val[1], TTL_LONG, ok)
  /\ gh' = [gh EXCEPT ![p].cok = @ \/ ok, ![p].cfail = @ \/ ~ok,
                      ![p].csets = IF ok THEN @ \cup {UserKey(loc[p].id)} ELSE @,
                      ![p].dsets = IF ok THEN @ \cup {UserKey(loc[p].id)} ELSE @]
  /\ IF ok \/ SetSwallows(ok)
       THEN /\ pc' = [pc EXCEPT ![p] = "done"]
            /\ res' = [res EXCEPT ![p] = [out |-> "ok", val |-> loc[p].val]]
       ELSE Fail(p, "cache")
  /\ UNCHANGED <<users, tasks, op, loc, todo, produced, nops, life>>

\* TaskService.createTask: taskRepository.create(...)
CtCreateStep(p, dbok) ==
  /\ pc[p] = "ct_create"
  /\ FreeTasks # {}
  /\ LET id == CHOOSE t \in FreeTasks : TRUE
         new == NewTaskRow(op[p])
     IN IF ~dbok \/ Rejected(op[p], id, new)
          THEN /\ Fail(p, IF dbok THEN "conflict" ELSE "db")
               /\ gh' = [gh EXCEPT ![p].wfail = TRUE]
               /\ UNCHANGED <<tasks, loc>>
          ELSE /\ tasks' = [tasks EXCEPT ![id] = new]
               /\ loc' = [loc EXCEPT ![p].id = id, ![p].val = <<TaskOf(id, new)>>]
               /\ gh' = [gh EXCEPT ![p].wrote = TRUE]
               /\ pc' = [pc EXCEPT ![p] = "ct_set"]
               /\ UNCHANGED res
  /\ UNCHANGED <<users, cache, op, todo, produced, nops, life>>

\* TaskService.createTask: cacheService.set(`task:${task.id}`, task, MEDIUM),
\* then invalidateUserCache(data.assigneeId) when the task is assigned
CtSetStep(p, ok) ==
  /\ pc[p] = "ct_set"
  /\ cache' = CacheSet(TaskKey(loc[p].id), loc[p].val[1], TTL_MEDIUM, ok)
  /\ gh' = [gh EXCEPT ![p].cok = @ \/ ok, ![p].cfail = @ \/ ~ok,
                      ![p].csets = IF ok THEN @ \cup {TaskKey(loc[p].id)} ELSE @,
                      ![p].dsets = IF ok THEN @ \cup {TaskKey(loc[p].id)} ELSE @]
  /\ LET inv == InvalidationOf(op[p], NoTaskRow, NewTaskRow(op[p]))
     IN IF ok \/ SetSwallows(ok)
          THEN /\ todo' = [todo EXCEPT ![p] = inv]
               /\ pc' = [pc EXCEPT ![p] = IF inv = <<>> THEN "done" ELSE "inv"]
               /\ res' = [res EXCEPT ![p] =
                            [out |-> IF inv = <<>> THEN "ok" ELSE "-",
                             val |-> loc[p].val]]
          ELSE Fail(p, "cache") /\ UNCHANGED todo
  /\ UNCHANGED <<users, tasks, op, loc, produced, nops, life>>

\* a key reaches the end of its TTL
Expire(k) ==
  /\ cache[k] # {}
  /\ cache' = [cache EXCEPT ![k] = {}]
  /\ UNCHANGED <<users, tasks, pc, op, loc, todo, res, gh, produced, nops, life>>

\* BaseRepository.softDelete / restore called on a repository directly
\* (scripts and jobs use the repositories without the services): one UPDATE,
\* no cache command
Restored(row) == IF row.st = "deleted" THEN [row EXCEPT !.st = "live"] ELSE row

RepoSoftDelete(t) ==
  /\ tasks[t].st = "live"
  /\ tasks' = [tasks EXCEPT ![t] = SoftDeleted(@)]
  /\ UNCHANGED <<users, cache, pc, op, loc, todo, res, gh, produced, nops, life>>

RepoRestore(t) ==
  /\ tasks[t].st = "deleted"
  /\ tasks' = [tasks EXCEPT ![t] = Restored(@)]
  /\ UNCHANGED <<users, cache, pc, op, loc, todo, res, gh, produced, nops, life>>

(* ------------------------------------------ repositories called directly *)
RepoNames == {"findById", "exists", "count", "findAll", "softDelete", "restore",
              "hardDelete"}

\* result.affected of the statements repository.softDelete(id), restore(id)
\* and delete(id) issue: each is WHERE id = $1 alone, so it is 1 whenever a
\* row with the id is stored
Affected(row) == IF row.st = "none" THEN 0 ELSE 1

\* BaseRepository.findById on the task table
RepoFindById(t) == IF LiveTask(t) THEN <<TaskOf(t, tasks[t])>> ELSE <<>>
\* BaseRepository.count() and exists(id)
RepoCount == Cardinality({t \in Tasks : LiveTask(t)})
RepoExists(t) == Cardinality({x \in {t} : LiveTask(x)}) > 0
\* findAll over the whole table
RepoFindAll(o) == FindAll(SelectSeq(TaskOrder, LiveTask), OptPage(o), OptLimit(o))

\* BaseRepository.hardDelete: DELETE ... WHERE id = $1
HardDeleted(row) == NoTaskRow

\* one call of a BaseRepository method on the task table (each is one
\* statement); loc.pre keeps the row as it was before the call
RepoCall(p, name, t, o) ==
  /\ Idle(p)
  /\ name \in {"count", "findAll"} => t = "t1"
  /\ name # "findAll" => o = "o1"
  /\ op' = [op EXCEPT ![p] = MkOp(name, "-", t, o, Unset, Unset, Unset, TRUE)]
  /\ loc' = [loc EXCEPT ![p] = [NoLoc EXCEPT !.pre = <<tasks[t]>>, !.id = t]]
  /\ tasks' =
       CASE name = "softDelete" -> [tasks EXCEPT ![t] = SoftDeleted(@)]
         [] name = "restore" -> [tasks EXCEPT ![t] = Restored(@)]
         [] name = "hardDelete" -> [tasks EXCEPT ![t] = HardDeleted(@)]
         [] OTHER -> tasks
  /\ res' = [res EXCEPT ![p] =
       [out |-> "ok",
        val |-> CASE name = "findById" -> RepoFindById(t)
                  [] name = "exists" -> <<RepoExists(t)>>
                  [] name = "count" -> <<RepoCount>>
                  [] name = "findAll" -> <<RepoFindAll(o)>>
                  [] OTHER -> <<Affected(tasks[t]) > 0>>]]
  /\ pc' = [pc EXCEPT ![p] = "done"]
  /\ gh' = [gh EXCEPT ![p] = NoGh]
  /\ todo' = [todo EXCEPT ![p] = <<>>]
  /\ UNCHANGED <<users, cache, produced, nops, life>>

(* ------------------------------------------- CacheService called directly *)
PrimNames == {"get", "set", "del", "exists", "ttl", "increment", "decrement",
              "delPattern"}

\* the keys the direct calls are made on: one user's list and statistics
\* keys, and the counter
ListKeys == {UserTasksKey("u1", o) : o \in Opts} \cup {StatsKey("u1")}
PrimKeys(name) ==
  CASE name = "set" -> ListKeys
    [] name \in {"increment", "decrement"} -> {CounterKey}
    [] name = "delPattern" -> {UserKey("u1")}
    [] OTHER -> ListKeys \cup {CounterKey}

\* a caller enters get / set / del / exists / ttl / increment / decrement /
\* delPattern; for delPattern k stands for the pattern user_tasks:{k.id}:*
BeginPrim(p, name, k) ==
  /\ Idle(p)
  /\ name = "increment" => CounterValue < MaxCount
  /\ name = "decrement" => CounterValue > -MaxCount
  /\ op' = [op EXCEPT ![p] = MkOp(name, k.id, "-", k.opt, Unset, Unset, Unset, TRUE)]
  /\ pc' = [pc EXCEPT ![p] = IF name = "delPattern" THEN "dp_keys" ELSE "prim"]
  /\ loc' = [loc EXCEPT ![p] = [NoLoc EXCEPT !.key = k]]
  /\ todo' = [todo EXCEPT ![p] = <<>>]
  /\ res' = [res EXCEPT ![p] = NoRes]
  /\ gh' = [gh EXCEPT ![p] = NoGh]
  /\ nops' = nops + 1
  /\ UNCHANGED <<users, tasks, cache, produced, life>>

\* increment / decrement: catch (error) { console.error(...); throw error; }
CounterRethrows(ok) == ~ok

\* the one Redis command of get / set / del / exists / ttl / increment /
\* decrement, and what the method returns
PrimStep(p, ok) ==
  /\ pc[p] = "prim"
  /\ LET k == loc[p].key
         name == op[p].name
         amount == IF name = "increment" THEN DefaultAmount ELSE -DefaultAmount
     IN /\ cache' =
             CASE name = "set" -> CacheSet(k, Producer(k)[1], TTLOf(k), ok)
               [] name = "del" -> CacheDel({k}, ok)
               [] name \in {"increment", "decrement"} /\ ok -> CacheIncrBy(amount)
               [] OTHER -> cache
        /\ res' = [res EXCEPT ![p] =
             CASE name = "get" -> [out |-> "ok", val |-> CacheGet(k, ok)]
               [] name = "set" -> [out |-> "ok", val |-> <<ok>>]
               [] name = "del" -> [out |-> "ok", val |-> <<CacheDelResult(k, ok)>>]
               [] name = "exists" -> [out |-> "ok", val |-> <<CacheExists(k, ok)>>]
               [] name = "ttl" -> [out |-> "ok", val |-> <<CacheTtl(k, ok)>>]
               [] OTHER ->
                    IF CounterRethrows(ok) THEN [out |-> "cache", val |-> <<>>]
                    ELSE [out |-> "ok",
                          val |-> <<IF ok THEN CounterValue + amount ELSE 0>>]]
  /\ pc' = [pc EXCEPT ![p] = "done"]
  /\ gh' = [gh EXCEPT ![p].cok = ok, ![p].cfail = ~ok]
  /\ UNCHANGED <<users, tasks, op, loc, todo, produced, nops, life>>

\* delPattern: const keys = await redis.keys(pattern);
\* if (keys.length === 0) return 0; the catch block returns 0 too
DpKeysStep(p, ok) ==
  /\ pc[p] = "dp_keys"
  /\ LET found == IF ok
                    THEN {k \in Keys : MatchesUserTasks(k, op[p].uid) /\ cache[k] # {}}
                    ELSE {}
     IN /\ loc' = [loc EXCEPT ![p].keys = found]
        /\ pc' = [pc EXCEPT ![p] = IF found = {} THEN "done" ELSE "dp_del"]
        /\ res' = [res EXCEPT ![p] =
                     IF found = {} THEN [out |-> "ok", val |-> <<0>>] ELSE @]
        /\ gh' = [gh EXCEPT ![p].cok = ok, ![p].cfail = ~ok]
  /\ UNCHANGED <<users, tasks, cache, op, todo, produced, nops, life>>

\* delPattern: const result = await redis.del(...keys); return result
DpDelStep(p, ok) ==
  /\ pc[p] = "dp_del"
  /\ LET gone == DelPatternTargets(loc[p].keys, op[p].uid)
     IN /\ cache' = CacheDel(gone, ok)
        /\ res' = [res EXCEPT ![p] = [out |-> "ok", val |-> <<DelCount(gone, ok)>>]]
        /\ gh' = [gh EXCEPT ![p].cok = @ \/ ok, ![p].cfail = @ \/ ~ok,
                            ![p].cdel = TRUE,
                            ![p].removed =
                              IF ok THEN {k \in gone : cache[k] # {}} ELSE {},
                            ![p].left =
                              {k \in Keys : MatchesUserTasks(k, op[p].uid)
                                              /\ CacheDel(gone, ok)[k] # {}}]
  /\ pc' = [pc EXCEPT ![p] = "done"]
  /\ UNCHANGED <<users, tasks, op, loc, todo, produced, nops, life>>

(* --------------------------------------------------------- specifications *)
\* one awaited step of the call p; cok / dbok say whether the cache command /
\* the store query of that step is answered
Call(p, cok, dbok) ==
  \/ GetStep(p, cok)
  \/ ProduceStep(p, dbok)
  \/ SetStep(p, cok)
  \/ RetryStep(p, dbok)
  \/ PreStep(p, dbok)
  \/ UuCheckStep(p, dbok)
  \/ LoadStep(p, dbok)
  \/ SaveStep(p, dbok)
  \/ SoftDelStep(p, dbok)
  \/ InvStep(p, cok)
  \/ CuFindStep(p, dbok)
  \/ CuCreateStep(p, dbok)
  \/ CuSetStep(p, cok)
  \/ CtCreateStep(p, dbok)
  \/ CtSetStep(p, cok)

Expiry == \E k \in Keys : Expire(k)

\* Spec: one call at a time, store and cache answer every command
Start == \E o \in Ops : nops < MaxOps /\ Begin("p1", o)
Run == Call("p1", TRUE, TRUE)
Next == Start \/ Run \/ Expiry
Spec == Init /\ [][Next]_vars

\* SpecFail: one call at a time, any store query or cache command may fail
StartFail == \E o \in Ops : nops < MaxFailOps /\ Begin("p1", o)
RunFail == \E cok, dbok \in BOOLEAN : Call("p1", cok, dbok)
NextFail == StartFail \/ RunFail \/ Expiry
SpecFail == Init /\ [][NextFail]_vars

\* SpecConc: the calls of Procs interleave step by step
StartConc == \E p \in Procs, o \in Ops : nops < MaxConcOps /\ Begin(p, o)
RunConc == \E p \in Procs : Call(p, TRUE, TRUE)
NextConc == StartConc \/ RunConc \/ Expiry
SpecConc == Init /\ [][NextConc]_vars

\* SpecReads: cached reads interleave with each other and with direct
\* repository writes; nothing invalidates
StartRead == \E p \in Procs, o \in ReadOps : nops < MaxReads /\ Begin(p, o)
RunReads ==
  \E p \in Procs :
    GetStep(p, TRUE) \/ ProduceStep(p, TRUE) \/ SetStep(p, TRUE) \/ RetryStep(p, TRUE)
RepoWrite == \E t \in Tasks : RepoSoftDelete(t) \/ RepoRestore(t)
NextReads == StartRead \/ RunReads \/ RepoWrite
SpecReads == Init /\ [][NextReads]_vars


\* SpecRepo: BaseRepository methods are called on the task table, one call
\* at a time
NextRepo ==
  \E name \in RepoNames, t \in Tasks, o \in Opts : RepoCall("p1", name, t, o)
SpecRepo == Init /\ [][NextRepo]_vars

\* SpecUsers: createUser, updateUser and deleteUser calls interleave, with
\* addresses as typed; the store is the seeded one or a fresh, empty one
InitFresh ==
  /\ users = [u \in Users |-> NoUserRow]
  /\ tasks = [t \in Tasks |-> NoTaskRow]
  /\ cache = [k \in Keys |-> {}]
  /\ InitCalls
InitUsersSpec == Init \/ InitFresh
UserRaceOps ==
  {MkOp("createUser", "-", "-", "-", e, Unset, Unset, TRUE) : e \in RawEmails}
    \cup {MkOp("updateUser", u, "-", "-", e, Unset, Unset, TRUE) :
            u \in Users, e \in RawEmails}
    \cup {MkOp("deleteUser", u, "-", "-", Unset, Unset, Unset, TRUE) : u \in Users}
StartUsers ==
  \E p \in Procs, o \in UserRaceOps : nops < MaxUserOps /\ Begin(p, o)
RunUsers ==
  \E p \in Procs :
    \/ GetStep(p, TRUE) \/ ProduceStep(p, TRUE) \/ SetStep(p, TRUE)
    \/ RetryStep(p, TRUE) \/ UuCheckStep(p, TRUE) \/ LoadStep(p, TRUE)
    \/ SaveStep(p, TRUE) \/ SoftDelStep(p, TRUE) \/ InvStep(p, TRUE)
    \/ CuFindStep(p, TRUE) \/ CuCreateStep(p, TRUE) \/ CuSetStep(p, TRUE)
NextUsers == StartUsers \/ RunUsers
SpecUsers == InitUsersSpec /\ [][NextUsers]_vars

\* SpecCache: direct CacheService calls interleave with each other and with
\* getOrSet calls of the list reads; any cache command may go unanswered
FillOps == {o \in ReadOps : KeyOf(o) \in ListKeys}
StartPrim ==
  \E p \in Procs, name \in PrimNames :
    \E k \in PrimKeys(name) : nops < MaxCacheOps /\ BeginPrim(p, name, k)
StartFill == \E p \in Procs, o \in FillOps : nops < MaxCacheOps /\ Begin(p, o)
RunPrim ==
  \E p \in Procs, ok \in BOOLEAN :
    PrimStep(p, ok) \/ DpKeysStep(p, ok) \/ DpDelStep(p, ok)
RunFill ==
  \E p \in Procs, dbok \in BOOLEAN :
    \/ GetStep(p, TRUE) \/ ProduceStep(p, dbok)
    \/ SetStep(p, TRUE) \/ RetryStep(p, dbok)
NextCache == StartPrim \/ StartFill \/ RunPrim \/ RunFill
SpecCache == InitWarm /\ [][NextCache]_vars

(* ------------------------------------------------------------- properties *)
Done(p) == pc[p] = "done"
Succeeded(p) == Done(p) /\ res[p].out = "ok"
IsRead(p) == op[p].name \in ReadNames
IsMutation(p) == op[p].name \notin ReadNames \cup {"-"}
Absent(k) == cache[k] = {}
EntryOf(k) == CHOOSE e \in cache[k] : TRUE

\* the per-user keys derived from a user's tasks
OwnerKeys(u) == {StatsKey(u)} \cup {UserTasksKey(u, o) : o \in Opts}
UserKeys(u) == {UserKey(u)} \cup OwnerKeys(u)

\* the call p has moved a task from one user to another: the old owner
OldOwner(p) ==
  IF op[p].name = "assignTask" THEN loc[p].ent[1].assigneeId
  ELSE loc[p].pre[1].assigneeId
NewOwner(p) == IF op[p].name = "assignTask" THEN op[p].uid ELSE op[p].asg
Reassigned(p) ==
  /\ Succeeded(p)
  /\ \/ op[p].name = "assignTask"
     \/ op[p].name = "updateTask" /\ op[p].asg # Unset
  /\ OldOwner(p) # NoUser
  /\ OldOwner(p) # NewOwner(p)

\* C1: once assignTask or updateTask has moved a task from user A to user B,
\* the cache holds no user_tasks:{A}:*, task_stats:{A}, user_tasks:{B}:* or
\* task_stats:{B} entry.
C1_ReassignPurgesBothOwners ==
  \A p \in Procs :
    Reassigned(p) =>
      \A k \in OwnerKeys(OldOwner(p)) \cup OwnerKeys(NewOwner(p)) : Absent(k)

\* every cache entry is what its producer returns from the store now
Fresh(k) ==
  Absent(k) \/
    /\ Producer(k) # <<>>
    /\ EntryOf(k).val = Serialize(k.kind, Producer(k)[1])

\* C2: a cached read and a mutation of the same record have run concurrently
\* and both have returned (neither is a create or assignTask, nothing else
\* has run): every cache entry equals what its producer returns from the
\* store as it now is.
C2_FreshAtQuiescence ==
  ( /\ nops = 2
    /\ Done("p1") /\ Done("p2")
    /\ IsRead("p1")
    /\ op["p2"].name \in {"changePassword", "deactivateUser", "deleteUser",
                          "updateTask", "updateStatus", "unassignTask",
                          "deleteTask"} )
  => \A k \in Keys : Fresh(k)

\* C3: no mutating service operation writes a value into the cache; the only
\* cache writes are getOrSet's.
C3_OnlyGetOrSetWrites ==
  \A p \in Procs : IsMutation(p) => gh[p].dsets = {}

\* the id of the row the mutation p wrote
TargetId2(p) ==
  IF op[p].name \in {"createUser", "createTask"} THEN loc[p].id
  ELSE TargetId(op[p])

\* the errors a service call can end with that come from the store or from
\* its own checks
StoreOutcomes == {"ok", "notfound", "db", "conflict", "taken", "invalid"}

\* C4: when no cache command of a call is answered, a read returns exactly
\* what its producer returns from the store, a mutation whose store write went
\* through reports success with the row it wrote, and no call ends with a
\* cache error.
C4_CacheOutageInvisible ==
  \A p \in Procs :
    (Done(p) /\ ~gh[p].cok) =>
      /\ res[p].out \in StoreOutcomes
      /\ (IsRead(p) /\ res[p].out = "ok") => res[p].val = Producer(loc[p].key)
      /\ (IsRead(p) /\ res[p].out = "notfound") => Producer(loc[p].key) = <<>>
      /\ (IsMutation(p) /\ gh[p].wrote) =>
           /\ res[p].out = "ok"
           /\ res[p].val \in
                {<<>>,
                 IF IsUserOp(op[p])
                   THEN <<UserOf(TargetId2(p), users[TargetId2(p)])>>
                   ELSE <<TaskOf(TargetId2(p), tasks[TargetId2(p)])>>}
      /\ (IsMutation(p) /\ res[p].out = "ok") => gh[p].wrote

\* C4 witness: a createTask with an assignee has written its row and
\* returned it although its set and every command of its invalidation went
\* unanswered
C4_Witness ==
  \E p \in Procs :
    /\ Succeeded(p) /\ gh[p].cfail /\ ~gh[p].cok
    /\ op[p].name = "createTask" /\ op[p].asg # Unset
    /\ gh[p].wrote /\ gh[p].cdel
    /\ res[p].val = <<TaskOf(loc[p].id, tasks[loc[p].id])>>

\* C5: when getOrSet's get finds the key, the call returns the cached value,
\* the producer is not invoked and nothing is written to the cache.
C5_HitReturnsCached ==
  \A p \in Procs :
    gh[p].hit =>
      /\ gh[p].prod = 0
      /\ gh[p].csets = {}
      /\ (IsRead(p) /\ pc[p] # "get") =>
           /\ Succeeded(p)
           /\ ~Absent(loc[p].key) => res[p].val = <<EntryOf(loc[p].key).val>>

\* C5 witness: a read has returned from a hit
C5_Witness ==
  \E p \in Procs :
    /\ IsRead(p) /\ Succeeded(p) /\ gh[p].hit
    /\ ~Absent(loc[p].key)
    /\ res[p].val = <<EntryOf(loc[p].key).val>>

\* the ttl each service read hands to getOrSet
GivenTtl(name) ==
  CASE name = "findUserById" -> TTL_LONG
    [] name = "findTaskById" -> TTL_MEDIUM
    [] OTHER -> TTL_SHORT

\* C6: on a miss or a failed cache read, when the producer succeeds, getOrSet
\* returns the producer's result whether the cache write succeeds or fails,
\* without invoking the producer again; after a successful write the cache
\* holds that result under the key with the given ttl (until it expires).
C6_MissReturnsProduced ==
  \A p \in Procs :
    (IsRead(p) /\ Done(p) /\ ~gh[p].hit /\ gh[p].first = "ok") =>
      /\ Succeeded(p)
      /\ gh[p].prod = 1
      /\ res[p].val = Producer(loc[p].key)
      /\ (loc[p].key \in gh[p].csets /\ ~Absent(loc[p].key)) =>
           cache[loc[p].key] =
             {[val |-> Serialize(loc[p].key.kind, res[p].val[1]),
               ttl |-> GivenTtl(op[p].name)]}

\* C6 witness: a task read has missed, produced and written its entry
C6_Witness ==
  \E p \in Procs :
    /\ op[p].name = "findTaskById" /\ Succeeded(p)
    /\ ~gh[p].hit /\ gh[p].first = "ok"
    /\ loc[p].key \in gh[p].csets
    /\ cache[loc[p].key] =
         {[val |-> Serialize("task", res[p].val[1]), ttl |-> TTL_MEDIUM]}

\* C7: getOrSet invokes its producer at most once per call; when the
\* producer fails the call fails too and nothing is written to the cache.
C7_ProducerAtMostOnce ==
  \A p \in Procs :
    /\ gh[p].prod <= 1
    /\ (Done(p) /\ gh[p].first = "fail") =>
         res[p].out # "ok" /\ gh[p].csets = {}

\* C8: with concurrent getOrSet calls and no invalidation, every caller
\* returns the result of one producer invocation, and every cache entry holds
\* the result of one producer invocation, never a mixture.
C8_OneInvocationsResult ==
  /\ \A p \in Procs :
       (IsRead(p) /\ Succeeded(p)) =>
         Produced(loc[p].key, res[p].val[1]) \in produced
  /\ \A k \in Keys :
       ~Absent(k) => [key |-> k, val |-> EntryOf(k).val] \in produced

\* C8 witness: two calls for one key have returned different results, and
\* the cache holds an entry for the key
C8_Witness ==
  /\ Succeeded("p1") /\ Succeeded("p2")
  /\ IsRead("p1") /\ op["p1"] = op["p2"]
  /\ ~gh["p1"].hit /\ ~gh["p2"].hit
  /\ res["p1"].val # res["p2"].val
  /\ ~Absent(loc["p1"].key)

WriteErrors == {"db", "conflict"}

\* C9 as stated: a mutation deletes cache keys only after its store write has
\* returned; when the store write fails the mutation has deleted and written
\* no cache key, and the error is what it ends with.
C9_NoCacheTouchOnFailedWrite ==
  \A p \in Procs :
    IsMutation(p) =>
      /\ gh[p].cdel => gh[p].wrote
      /\ gh[p].wfail =>
           /\ ~gh[p].cdel
           /\ gh[p].csets = {}
           /\ Done(p) => res[p].out \in WriteErrors

\* C9 amended: a mutation deletes cache keys only after its store write has
\* returned; when the store write fails the mutation deletes no cache key and
\* ends with the error, and the only key it can have written is user:{id},
\* by the read-through findById that updateUser starts with.
C9_DeleteOnlyAfterWrite ==
  \A p \in Procs :
    IsMutation(p) =>
      /\ gh[p].cdel => gh[p].wrote
      /\ ~gh[p].early
      /\ gh[p].wfail =>
           /\ ~gh[p].cdel
           /\ gh[p].dsets = {}
           /\ gh[p].csets \subseteq
                (IF op[p].name = "updateUser" THEN {UserKey(op[p].uid)} ELSE {})
           /\ Done(p) => res[p].out \in WriteErrors

\* C9 witness: an updateUser whose store write failed after its findById had
\* filled user:{id}
C9_Witness ==
  \E p \in Procs :
    /\ op[p].name = "updateUser" /\ Done(p)
    /\ gh[p].wfail /\ ~gh[p].cdel
    /\ gh[p].csets = {UserKey(op[p].uid)}
    /\ res[p].out \in WriteErrors

UserWrites == {"updateUser", "changePassword", "deactivateUser", "deleteUser"}

\* C10: with every cache command answered, once updateUser, changePassword,
\* deactivateUser or deleteUser on user U has returned, user:{U},
\* task_stats:{U} and every user_tasks:{U}:* are absent; a findById that
\* finds its key absent returns only after invoking the store producer.
C10_UserWritePurgesUserKeys ==
  \A p \in Procs :
    /\ (Succeeded(p) /\ op[p].name \in UserWrites) =>
         \A k \in UserKeys(op[p].uid) : Absent(k)
    /\ (Done(p) /\ op[p].name = "findUserById" /\ ~gh[p].hit) =>
         gh[p].prod >= 1

\* C10 witness: a user mutation has returned after deleting the user's
\* cached statistics or a cached task list
C10_Witness ==
  \E p \in Procs :
    /\ Succeeded(p) /\ op[p].name \in UserWrites
    /\ gh[p].removed \cap OwnerKeys(op[p].uid) # {}
    /\ \A k \in UserKeys(op[p].uid) : Absent(k)

\* the cache keys a change of task t can make stale: task:{t} and, when the
\* row has an owner, that owner's list and statistics keys
KeysOfTask(t, row) ==
  {TaskKey(t)} \cup (IF row.assigneeId = NoUser THEN {} ELSE OwnerKeys(row.assigneeId))

\* C11: when an operation that changes a stored task completes (here
\* restore, one statement that brings a soft-deleted task back, with no
\* service call in flight), task:{id}
\* and, when the task has an owner, the owner's user_tasks:{owner}:* and
\* task_stats:{owner} entries are absent from the cache.
C11_ChangePurgesTaskKeys ==
  [][\A t \in Tasks :
       (tasks[t].st = "deleted" /\ tasks'[t].st = "live"
          /\ \A p \in Procs : Idle(p)) =>
         \A k \in KeysOfTask(t, tasks'[t]) : cache'[k] = {}]_vars

SoftNames == {"get", "set", "del", "delPattern", "exists", "ttl"}

\* C12: get, set, del, delPattern, exists and ttl never raise; when a
\* command of the call goes unanswered they return null, false, false, 0,
\* false and -1.
C12_PrimitivesFailSoft ==
  \A p \in Procs :
    (Done(p) /\ op[p].name \in SoftNames) =>
      /\ res[p].out = "ok"
      /\ gh[p].cfail =>
           CASE op[p].name = "get" -> res[p].val = <<>>
             [] op[p].name = "delPattern" -> res[p].val = <<0>>
             [] op[p].name = "ttl" -> res[p].val = <<-1>>
             [] OTHER -> res[p].val = <<FALSE>>

\* C12 witness: an exists on a key that is in the cache has answered false
\* because its command went unanswered
C12_Witness ==
  \E p \in Procs :
    /\ Done(p) /\ op[p].name = "exists" /\ gh[p].cfail
    /\ ~Absent(loc[p].key)
    /\ res[p] = [out |-> "ok", val |-> <<FALSE>>]

\* C13: increment and decrement are fail-soft like get: a backend error is
\* never propagated to the caller.
C13_CountersFailSoft ==
  \A p \in Procs :
    (Done(p) /\ op[p].name \in {"increment", "decrement"}) => res[p].out = "ok"

\* C14: delPattern's del removes exactly the keys its enumeration returned
\* and returns how many of them it removed (nothing and 0 when the del goes
\* unanswered); a matching key that was not enumerated stays.
C14_SweepDeletesEnumerated ==
  [][\A p \in Procs :
       (pc[p] = "dp_del" /\ pc'[p] = "done") =>
         IF gh'[p].cfail
           THEN cache' = cache /\ res'[p].val = <<0>>
           ELSE /\ cache' = [k \in Keys |->
                               IF k \in loc[p].keys THEN {} ELSE cache[k]]
                /\ res'[p].val =
                     <<Cardinality({k \in loc[p].keys : cache[k] # {}})>>]_vars

\* C14 witness: a delPattern has returned the number of keys it removed while
\* a matching key, written by a concurrent getOrSet after the enumeration,
\* was in the cache
C14_Witness ==
  \E p \in Procs, q \in Procs :
    /\ Done(p) /\ op[p].name = "delPattern" /\ ~gh[p].cfail
    /\ gh[p].removed # {} /\ gh[p].removed = loc[p].keys
    /\ res[p].val = <<Cardinality(gh[p].removed)>>
    /\ q # p /\ op[q].name = "findByAssignee"
    /\ gh[p].left \cap gh[q].csets # {}

LiveWithEmail(e) == {u \in Users : LiveUser(u) /\ users[u].email = e}

\* C15: no two live users have the same normalized email, whatever the
\* interleaving of createUser and updateUser calls (stored addresses are
\* normalized); a createUser or updateUser that loses fails without creating
\* or changing a row.
C15_LiveEmailsUnique ==
  /\ \A u \in Users : users[u].st # "none" => users[u].email \in Emails
  /\ \A e \in Emails : Cardinality(LiveWithEmail(e)) <= 1
  /\ \A p \in Procs :
       (Done(p) /\ op[p].name \in {"createUser", "updateUser"}
          /\ res[p].out \in {"taken", "conflict"}) =>
         ~gh[p].wrote /\ loc[p].id = "-"

\* C15 witness: two createUser calls with addresses that differ as typed and
\* agree once normalized have both passed the findByEmail check; one created
\* the user, the other was refused by the store
C15_Witness ==
  /\ op["p1"].name = "createUser" /\ op["p2"].name = "createUser"
  /\ op["p1"].email # op["p2"].email
  /\ Normalize(op["p1"].email) = Normalize(op["p2"].email)
  /\ Succeeded("p1")
  /\ Done("p2") /\ res["p2"].out = "conflict"
  /\ Cardinality(LiveWithEmail(Normalize(op["p1"].email))) = 1

\* C16: a createUser with an address whose only holder is a soft-deleted
\* user succeeds and creates a live user with that address.
C16_CreateOverSoftDeleted ==
  \A p \in Procs :
    ( /\ Done(p) /\ op[p].name = "createUser"
      /\ \E u \in Users \ {loc[p].id} :
           users[u].st = "deleted" /\ users[u].email = Normalize(op[p].email)
      /\ \A u \in Users \ {loc[p].id} :
           LiveUser(u) => users[u].email # Normalize(op[p].email) )
    => /\ Succeeded(p)
       /\ LiveWithEmail(Normalize(op[p].email)) = {loc[p].id}

LiveTasks == {t \in Tasks : tasks[t].st = "live"}

\* C17: findById, findAll, count and exists never return or count a
\* soft-deleted row: findById answers null, exists false, count and findAll
\* see the live rows only; a softDelete that answered true left the row
\* soft-deleted.
C17_ReadsSkipSoftDeleted ==
  \A p \in Procs :
    Done(p) =>
      CASE op[p].name = "findById" ->
             res[p].val = IF op[p].tid \in LiveTasks
                            THEN <<TaskOf(op[p].tid, tasks[op[p].tid])>> ELSE <<>>
        [] op[p].name = "exists" -> res[p].val = <<op[p].tid \in LiveTasks>>
        [] op[p].name = "count" -> res[p].val = <<Cardinality(LiveTasks)>>
        [] op[p].name = "findAll" ->
             /\ \A i \in DOMAIN res[p].val[1].data :
                  res[p].val[1].data[i].id \in LiveTasks
             /\ res[p].val[1].pagination.total = Cardinality(LiveTasks)
        [] op[p].name = "softDelete" ->
             res[p].val = <<TRUE>> => tasks[op[p].tid].st = "deleted"
        [] OTHER -> TRUE

\* C17 witness: findById of a soft-deleted row has answered null
C17_Witness ==
  \E p \in Procs :
    /\ Done(p) /\ op[p].name = "findById"
    /\ tasks[op[p].tid].st = "deleted"
    /\ res[p].val = <<>>

\* C18: softDelete on a live row changes nothing but the deletion mark, and
\* restore on the soft-deleted row brings it back with every other field as
\* it was: findById returns the row again.
C18_SoftDeleteRestoreRoundTrip ==
  \A p \in Procs :
    /\ (Done(p) /\ op[p].name = "softDelete" /\ loc[p].pre[1].st = "live") =>
         tasks[op[p].tid] = [loc[p].pre[1] EXCEPT !.st = "deleted"]
    /\ (Done(p) /\ op[p].name = "restore" /\ loc[p].pre[1].st = "deleted") =>
         /\ tasks[op[p].tid] = [loc[p].pre[1] EXCEPT !.st = "live"]
         /\ RepoFindById(op[p].tid) = <<TaskOf(op[p].tid, loc[p].pre[1])>>

\* C18 witness: a restore has brought back a soft-deleted task that has an
\* assignee
C18_Witness ==
  \E p \in Procs :
    /\ Done(p) /\ op[p].name = "restore"
    /\ loc[p].pre[1].st = "deleted" /\ loc[p].pre[1].assigneeId # NoUser
    /\ RepoFindById(op[p].tid) = <<TaskOf(op[p].tid, loc[p].pre[1])>>

\* C19: restore on a row that is not soft-deleted (live or missing) returns
\* false and leaves the store unchanged.
C19_RestoreOfLiveIsNoOp ==
  \A p \in Procs :
    (Done(p) /\ op[p].name = "restore" /\ loc[p].pre[1].st # "deleted") =>
      /\ res[p].val = <<FALSE>>
      /\ tasks[op[p].tid] = loc[p].pre[1]

\* C20: update on an id without a live row (never created, removed or
\* soft-deleted) fails with not-found and leaves every row as it was.
C20_UpdateOfMissingFails ==
  [][\A p \in Procs :
       (pc[p] = "load" /\ pc'[p] # "load" /\ TargetRow(op[p]).st # "live") =>
         /\ pc'[p] = "done"
         /\ res'[p].out = "notfound"
         /\ users' = users /\ tasks' = tasks]_vars

\* C20 witness: an update of a soft-deleted task has failed with not-found
\* and the row is still soft-deleted
C20_Witness ==
  \E p \in Procs :
    /\ Done(p) /\ op[p].name = "updateStatus"
    /\ tasks[op[p].tid].st = "deleted"
    /\ tasks[op[p].tid].status # op[p].status
    /\ res[p].out = "notfound" /\ ~gh[p].wrote

(* ------------------------------------------------------------ error kinds *)
DefaultStatusCode == 500

\* the causes a repository call fails for: no row, a constraint, the connection
Causes == {"notfound", "conflict", "db"}

\* the object BaseRepository throws for a cause: create, update and
\* softDelete catch whatever was thrown and throw new Error(`Failed to ...:
\* ${message}`), a plain Error without statusCode
RepositoryError(cause) ==
  [name |-> "Error", statusCode |-> Unset, message |-> cause]

\* errorHandler: err.statusCode || 500
StatusCode(err) ==
  IF err.statusCode = Unset THEN DefaultStatusCode ELSE err.statusCode

\* what a caller can branch on: the error's class and the status it maps to
ErrorKind(err) == [name |-> err.name, status |-> StatusCode(err)]

\* C21: a missing row, a uniqueness violation and a connectivity failure are
\* reported as three different error kinds: the kind of a failed call is the
\* kind of no other cause.
C21_CausesHaveDistinctKinds ==
  \A p \in Procs :
    (Done(p) /\ res[p].out \in Causes) =>
      \A c \in Causes \ {res[p].out} :
        ErrorKind(RepositoryError(c)) # ErrorKind(RepositoryError(res[p].out))

Addressed ==
  {"updateUser", "changePassword", "deactivateUser", "deleteUser", "updateTask",
   "updateStatus", "assignTask", "unassignTask", "deleteTask"}

\* C22: a service operation addressed to an id without a live row ends with
\* not-found and never reports success (calls run one at a time: a row that
\* is missing at the end was missing at the start, and only the two deletes
\* leave a row soft-deleted).
C22_MissingIdEndsNotFound ==
  \A p \in Procs :
    (/\ Done(p) /\ op[p].name \in Addressed
     /\ \/ TargetRow(op[p]).st = "none"
        \/ /\ TargetRow(op[p]).st = "deleted"
           /\ op[p].name \notin {"deleteUser", "deleteTask"})
      => res[p].out = "notfound"

\* C23: createTask with a creator id that has no row in users is rejected:
\* the step that runs the insert ends the call with an error, writes no task
\* row and leaves the cache as it was.
C23_UnknownCreatorRejected ==
  [][\A p \in Procs :
       (/\ pc[p] = "ct_create" /\ pc'[p] # "ct_create"
        /\ users[op[p].uid].st = "none")
         => /\ pc'[p] = "done" /\ res'[p].out \notin {"ok", "-"}
            /\ tasks' = tasks /\ cache' = cache]_vars

\* C23 witness: a createTask for an unknown creator has failed on the foreign
\* key, no task row was added and the call touched no cache key
C23_Witness ==
  \E p \in Procs :
    /\ Done(p) /\ op[p].name = "createTask"
    /\ users[op[p].uid].st = "none"
    /\ res[p].out = "conflict" /\ ~gh[p].wrote
    /\ gh[p].csets = {} /\ ~gh[p].cdel
    /\ \A t \in Tasks : tasks[t].st # "none" => tasks[t].createdById # op[p].uid

(* ---------------------------------------------------------- list requests *)
\* a page or limit query parameter: absent (<<>>) or an integer
QueryInts == ((0 - 1) .. MaxPage) \cup {MaxLimit + 1}
QueryValues == {<<>>} \cup {<<n>> : n \in QueryInts}

\* listTasksValidator: page optional isInt({min: 1}),
\* limit optional isInt({min: 1, max: 100})
ValidPage(raw) == raw = <<>> \/ raw[1] >= 1
ValidLimit(raw) == raw = <<>> \/ (raw[1] >= 1 /\ raw[1] <= MaxLimit)

\* parseInt(req.query.x) || dflt: an absent parameter is NaN, NaN and 0 are falsy
ParseQuery(raw, dflt) == IF raw = <<>> THEN dflt ELSE IF raw[1] = 0 THEN dflt ELSE raw[1]

\* BaseRepository.findAll: options.page || 1, options.limit || 10
Executed(page, limit) ==
  [page |-> IF page = 0 THEN DefaultPage ELSE page,
   limit |-> IF limit = 0 THEN DefaultLimit ELSE limit]

\* findAndCount with a negative OFFSET or LIMIT is refused by the store
QueryRefused(x) == (x.page - 1) * x.limit < 0 \/ x.limit < 0

\* the rows findOverdue matches: status TODO and a due date that has passed
\* (due: the rows whose due date lies before now)
Overdue(due) ==
  SelectSeq(TaskOrder, LAMBDA t : LiveTask(t) /\ t \in due /\ tasks[t].status = "TODO")

\* a list request through its route: loc.ent keeps the page and limit
\* findAll ran with
ListRequest(p, name, matching, rawPage, rawLimit, validated) ==
  LET x == Executed(ParseQuery(rawPage, DefaultPage), ParseQuery(rawLimit, DefaultLimit))
      bad == validated /\ ~(ValidPage(rawPage) /\ ValidLimit(rawLimit))
  IN /\ Idle(p)
     /\ op' = [op EXCEPT ![p] = MkOp(name, "-", "-", "-", Unset, Unset, Unset, TRUE)]
     /\ loc' = [loc EXCEPT ![p] = [NoLoc EXCEPT !.ent = IF bad THEN <<>> ELSE <<x>>]]
     /\ res' = [res EXCEPT ![p] =
          IF bad THEN [out |-> "invalid", val |-> <<>>]
          ELSE IF QueryRefused(x) THEN [out |-> "db", val |-> <<>>]
          ELSE [out |-> "ok", val |-> <<FindAll(matching, x.page, x.limit)>>]]
     /\ pc' = [pc EXCEPT ![p] = "done"]
     /\ gh' = [gh EXCEPT ![p] = NoGh]
     /\ todo' = [todo EXCEPT ![p] = <<>>]
     /\ UNCHANGED <<users, tasks, cache, produced, nops, life>>

\* GET /tasks: validate(listTasksValidator), TaskController.getAllTasks
GetAllTasks(p, rawPage, rawLimit) ==
  ListRequest(p, "getAllTasks", SelectSeq(TaskOrder, LiveTask), rawPage, rawLimit, TRUE)

\* GET /tasks/overdue: TaskController.getOverdueTasks, no validator on the route
GetOverdueTasks(p, rawPage, rawLimit, due) ==
  ListRequest(p, "getOverdueTasks", Overdue(due), rawPage, rawLimit, FALSE)

\* any task table the services can have produced
TaskRows ==
  {NoTaskRow}
    \cup [st : {"live", "deleted"}, assigneeId : {NoUser, "u1"},
          status : TaskStatuses, createdById : {"u1"}]

InitPage ==
  /\ users \in InitUsers
  /\ tasks \in [Tasks -> TaskRows]
  /\ cache = [k \in Keys |-> {}]
  /\ InitCalls

NextPage ==
  \/ \E rp, rl \in QueryValues : GetAllTasks("p1", rp, rl)
  \/ \E rp, rl \in QueryValues, due \in SUBSET Tasks : GetOverdueTasks("p1", rp, rl, due)
SpecPage == InitPage /\ [][NextPage]_vars

Max(a, b) == IF a > b THEN a ELSE b

\* C24: findAll(page, limit) with page >= 1 and limit in 1..100 over the N
\* live rows returns the rows at offsets (page-1)*limit .. (page-1)*limit+limit-1
\* of the ordered match, min(limit, max(0, N-(page-1)*limit)) of them, with
\* total = N, totalPages = ceil(N/limit), hasNext = page < totalPages and
\* hasPrevious = page > 1.
C24_PageWindow ==
  \A p \in Procs :
    (/\ Done(p) /\ op[p].name = "getAllTasks" /\ loc[p].ent # <<>>) =>
      LET page == loc[p].ent[1].page
          limit == loc[p].ent[1].limit
          ordered == SelectSeq(TaskOrder, LAMBDA t : tasks[t].st = "live")
          N == Len(ordered)
          skip == (page - 1) * limit
          items == Min(limit, Max(0, N - skip))
      IN (page >= 1 /\ limit >= 1 /\ limit <= MaxLimit) =>
           /\ res[p].out = "ok"
           /\ LET r == res[p].val[1]
              IN /\ Len(r.data) = items
                 /\ \A i \in 1 .. items : r.data[i].id = ordered[skip + i]
                 /\ r.pagination.page = page /\ r.pagination.limit = limit
                 /\ r.pagination.total = N
                 /\ r.pagination.totalPages * limit >= N
                 /\ (r.pagination.totalPages - 1) * limit < N
                 /\ r.pagination.hasNext = (page < r.pagination.totalPages)
                 /\ r.pagination.hasPrevious = (page > 1)

\* C24 witness: a page past the end of two live rows came back empty with
\* hasNext false
C24_Witness ==
  \E p \in Procs :
    /\ Done(p) /\ op[p].name = "getAllTasks" /\ res[p].out = "ok"
    /\ \A t \in Tasks : tasks[t].st = "live"
    /\ loc[p].ent = <<[page |-> 3, limit |-> 1]>>
    /\ res[p].val[1].data = <<>>
    /\ ~res[p].val[1].pagination.hasNext
    /\ res[p].val[1].pagination.totalPages = 2

\* C25: every findAll the repository runs has page >= 1 and 1 <= limit <= 100,
\* on every route: skip is never negative and no page holds more than 100
\* items.
C25_ExecutedWithinBounds ==
  \A p \in Procs :
    (/\ Done(p) /\ op[p].name \in {"getAllTasks", "getOverdueTasks"}
     /\ loc[p].ent # <<>>) =>
      /\ loc[p].ent[1].page >= 1
      /\ loc[p].ent[1].limit >= 1 /\ loc[p].ent[1].limit <= MaxLimit
      /\ (loc[p].ent[1].page - 1) * loc[p].ent[1].limit >= 0
      /\ res[p].out = "ok" => Len(res[p].val[1].data) <= MaxLimit

(* ------------------------------------------------------ create then fetch *)
\* SpecRound: p1 runs a createUser or createTask; once it has returned, p2
\* fetches the created id through the service's findById, nothing in between.
\* Any cache command or store query may go unanswered.
CreateOps == {o \in Ops : o.name \in {"createUser", "createTask"}}

FetchOf(o, id) ==
  IF o.name = "createUser"
    THEN MkOp("findUserById", id, "-", "-", Unset, Unset, Unset, TRUE)
    ELSE MkOp("findTaskById", "-", id, "-", Unset, Unset, Unset, TRUE)

StartCreate == \E o \in CreateOps : nops = 0 /\ Begin("p1", o)
StartFetch ==
  /\ nops = 1 /\ Succeeded("p1")
  /\ Begin("p2", FetchOf(op["p1"], loc["p1"].id))
RunRound ==
  \E p \in Procs, cok, dbok \in BOOLEAN :
    \/ CuFindStep(p, dbok) \/ CuCreateStep(p, dbok) \/ CuSetStep(p, cok)
    \/ CtCreateStep(p, dbok) \/ CtSetStep(p, cok) \/ InvStep(p, cok)
    \/ GetStep(p, cok) \/ ProduceStep(p, dbok) \/ SetStep(p, cok)
    \/ RetryStep(p, dbok)
NextRound == StartCreate \/ StartFetch \/ RunRound
SpecRound == Init /\ [][NextRound]_vars

\* C26: an entity created through the service and fetched by id right after
\* comes back equal to the created value, field for field.
C26_CreateFetchRoundTrip ==
  (Succeeded("p1") /\ Succeeded("p2")) => res["p2"].val = res["p1"].val

(* ------------------------------------------------- task operations, stats *)
\* SpecStats: task operations and the per-user reads, one call at a time,
\* store and cache healthy
StatOps ==
  {o \in Ops : o.name \in {"createTask", "assignTask", "updateStatus", "updateTask",
                           "deleteTask", "getUserTaskStats", "findByAssignee"}}
StartStats == \E o \in StatOps : nops < MaxStatOps /\ Begin("p1", o)
RunStats ==
  \/ GetStep("p1", TRUE) \/ ProduceStep("p1", TRUE) \/ SetStep("p1", TRUE)
  \/ PreStep("p1", TRUE) \/ LoadStep("p1", TRUE) \/ SaveStep("p1", TRUE)
  \/ SoftDelStep("p1", TRUE) \/ InvStep("p1", TRUE)
  \/ CtCreateStep("p1", TRUE) \/ CtSetStep("p1", TRUE)
NextStats == StartStats \/ RunStats
SpecStats == Init /\ [][NextStats]_vars

OwnedBy(u) == {t \in Tasks : tasks[t].st = "live" /\ tasks[t].assigneeId = u}
OwnedIn(u, s) == {t \in OwnedBy(u) : tasks[t].status = s}

\* C27: with nothing in flight, getUserTaskStats(U) returns total = the number
\* of live tasks owned by U and todo / inProgress / done = the number of
\* those in each status, and findByAssignee(U) lists exactly the live tasks
\* owned by U (its first page).
C27_StatsMatchStore ==
  \A p \in Procs :
    Succeeded(p) =>
      /\ op[p].name = "getUserTaskStats" =>
           LET r == res[p].val[1]
           IN /\ r.total = Cardinality(OwnedBy(op[p].uid))
              /\ r.todo = Cardinality(OwnedIn(op[p].uid, "TODO"))
              /\ r.inProgress = Cardinality(OwnedIn(op[p].uid, "IN_PROGRESS"))
              /\ r.done = Cardinality(OwnedIn(op[p].uid, "DONE"))
      /\ op[p].name = "findByAssignee" =>
           LET r == res[p].val[1]
           IN /\ r.pagination.total = Cardinality(OwnedBy(op[p].uid))
              /\ \A i \in DOMAIN r.data : r.data[i].id \in OwnedBy(op[p].uid)
              /\ Len(r.data) = Min(OptLimit(op[p].opt), Cardinality(OwnedBy(op[p].uid)))

(* ----------------------------------------------------- initializeDatabase *)
reqvars == <<users, tasks, cache, pc, op, loc, todo, res, gh, produced, nops>>

\* a call of initializeDatabase(maxRetries) on a handle that is initialised
\* or not; was: AppDataSource.isInitialized when the call began; attempts:
\* AppDataSource.initialize() calls made; waits: the backoff delays slept, ms
BootCall(maxRetries, initialized, calls) ==
  [stage |-> "test", maxRetries |-> maxRetries, retries |-> 0, attempts |-> 0,
   isInitialized |-> initialized, was |-> initialized, waits |-> <<>>,
   calls |-> calls]

\* faulty variant: the loop runs once more
LoopRunsOnEqual(retries, maxRetries) == retries <= maxRetries

\* while (retries < maxRetries)
LoopRuns(retries, maxRetries) == retries < maxRetries

\* faulty variant: the delay grows linearly
LinearWait(retries) == retries * 1000

\* Math.pow(2, retries) * 1000
WaitTime(retries) == (2 ^ retries) * 1000

\* the while test and, inside the try, if (!AppDataSource.isInitialized)
BootTest ==
  /\ life.stage = "test"
  /\ life' = [life EXCEPT !.stage =
       IF ~LoopRuns(life.retries, life.maxRetries) THEN "thrown"
       ELSE IF life.isInitialized THEN "returned" ELSE "connect"]
  /\ UNCHANGED reqvars

\* await AppDataSource.initialize(): return AppDataSource, or the catch
\* block: retries++ and, if (retries < maxRetries), a backoff wait
BootConnect(ok) ==
  /\ life.stage = "connect"
  /\ life' =
       IF ok
         THEN [life EXCEPT !.attempts = @ + 1, !.isInitialized = TRUE,
                           !.stage = "returned"]
         ELSE [life EXCEPT !.attempts = @ + 1, !.retries = @ + 1,
                           !.stage = IF life.retries + 1 < life.maxRetries
                                       THEN "wait" ELSE "test"]
  /\ UNCHANGED reqvars

\* await new Promise((resolve) => setTimeout(resolve, waitTime))
BootWait ==
  /\ life.stage = "wait"
  /\ life' = [life EXCEPT !.waits = Append(@, WaitTime(life.retries)),
                          !.stage = "test"]
  /\ UNCHANGED reqvars

\* initializeDatabase is called again after it returned or threw
BootAgain(maxRetries) ==
  /\ life.stage \in {"returned", "thrown"}
  /\ life.calls < MaxBootCalls
  /\ life' = BootCall(maxRetries, life.isInitialized, life.calls + 1)
  /\ UNCHANGED reqvars

InitBoot ==
  /\ InitStore
  /\ cache = [k \in Keys |-> {}]
  /\ InitRequests
  /\ \E m \in 1 .. MaxRetriesArg, i \in BOOLEAN : life = BootCall(m, i, 1)

BootStep == BootTest \/ (\E ok \in BOOLEAN : BootConnect(ok)) \/ BootWait
NextBoot == BootStep \/ (\E m \in 1 .. MaxRetriesArg : BootAgain(m))
\* the event loop runs every continuation and every timer that is due
SpecBoot == InitBoot /\ [][NextBoot]_vars /\ WF_vars(BootStep)

BootEnded == life.stage \in {"returned", "thrown"}

BootSafe ==
  /\ life.attempts <= life.maxRetries
  /\ life.stage = "returned" =>
       /\ life.isInitialized
       /\ life.was => life.attempts = 0
       /\ ~life.was => life.attempts = life.retries + 1
  /\ life.stage = "thrown" =>
       /\ ~life.isInitialized
       /\ life.retries = life.maxRetries /\ life.attempts = life.maxRetries

\* C28: initializeDatabase(maxRetries), maxRetries >= 1, always ends: it
\* returns the handle at the first attempt that succeeds (all attempts before
\* it failed, none follows), it throws after maxRetries failed attempts, it
\* never makes more than maxRetries attempts, and a handle that is already
\* initialised is returned without any attempt.
C28_InitializeTerminates == [](BootSafe) /\ (~BootEnded ~> BootEnded)

\* C28 witness: a call has returned the handle at its third attempt, after
\* two failures
C28_Witness ==
  /\ life.stage = "returned" /\ ~life.was
  /\ life.retries = 2 /\ life.attempts = 3 /\ life.maxRetries >= 3

Running(server, inflight, db) ==
  [stage |-> "up", server |-> server, inflight |-> inflight, db |-> db,
   redis |-> "open", clock |-> 0, exit |-> <<>>, timedout |-> FALSE]

\* faulty variant: closeRedis lets the error of quit escape
QuitRethrows(ok) == IF ok THEN "closed" ELSE "failed"

\* closeRedis: await redisClient.quit(); its catch block disconnects the
\* client and returns normally
QuitOrDisconnect(ok) == IF ok THEN "closed" ELSE "forced"

\* closeDatabase: await AppDataSource.destroy(); its catch block rethrows
Destroyed(ok) == IF ok THEN "closed" ELSE "failed"

\* Promise.all([closeDatabase(), closeRedis()]): .catch -> process.exit(1) as
\* soon as one rejects, .then -> process.exit(0) once both have resolved
ExitAfter(db, redis) ==
  IF db = "failed" \/ redis = "failed" THEN <<1>>
  ELSE IF db = "closed" /\ redis \in {"closed", "forced"} THEN <<0>>
  ELSE <<>>

Exited(l, code) == [l EXCEPT !.exit = code, !.stage = IF code = <<>> THEN @ ELSE "exited"]

\* SIGTERM / SIGINT: if (server) { server.close(cb); setTimeout(..., 10000) }
\* else process.exit(0)
Signal ==
  /\ life.stage = "up"
  /\ life' = IF life.server = "listening"
               THEN [life EXCEPT !.stage = "closing", !.server = "closing"]
               ELSE Exited(life, <<0>>)
  /\ UNCHANGED reqvars

\* a request that was in flight when the server stopped listening ends
RequestEnds ==
  /\ life.stage = "closing" /\ life.server = "closing" /\ life.inflight > 0
  /\ life' = [life EXCEPT !.inflight = @ - 1]
  /\ UNCHANGED reqvars

\* the callback of server.close runs once the last connection has ended: it
\* calls closeDatabase() and closeRedis(), which run up to their first await
ServerClosed ==
  /\ life.stage = "closing" /\ life.server = "closing" /\ life.inflight = 0
  /\ life' = [life EXCEPT !.server = "closed", !.db = "closing",
                          !.redis = "closing"]
  /\ UNCHANGED reqvars

\* AppDataSource.destroy() settles
DbCloses(ok) ==
  /\ life.stage = "closing" /\ life.db = "closing"
  /\ life' = Exited([life EXCEPT !.db = Destroyed(ok)],
                    ExitAfter(Destroyed(ok), life.redis))
  /\ UNCHANGED reqvars

\* redisClient.quit() settles
RedisCloses(ok) ==
  /\ life.stage = "closing" /\ life.redis = "closing"
  /\ life' = Exited([life EXCEPT !.redis = QuitOrDisconnect(ok)],
                    ExitAfter(life.db, QuitOrDisconnect(ok)))
  /\ UNCHANGED reqvars

\* a second goes by before the forced-exit timer is due
Tick ==
  /\ life.stage = "closing" /\ life.clock + 1000 <= ForceTimeout
  /\ life' = [life EXCEPT !.clock = @ + 1000]
  /\ UNCHANGED reqvars

\* setTimeout(() => process.exit(1), 10000) fires
ForcedExit ==
  /\ life.stage = "closing" /\ life.clock = ForceTimeout
  /\ life' = Exited([life EXCEPT !.timedout = TRUE], <<1>>)
  /\ UNCHANGED reqvars

InitShutdown ==
  /\ InitStore
  /\ cache = [k \in Keys |-> {}]
  /\ InitRequests
  /\ \/ \E n \in 0 .. MaxInflight : life = Running("listening", n, "open")
     \/ life = Running("none", 0, "open")

TimerStep == Tick \/ ForcedExit
NextShutdown ==
  \/ Signal \/ RequestEnds \/ ServerClosed
  \/ (\E ok \in BOOLEAN : DbCloses(ok))
  \/ (\E ok \in BOOLEAN : RedisCloses(ok))
  \/ TimerStep
\* time passes and a timer that is due fires
SpecShutdown == InitShutdown /\ [][NextShutdown]_vars /\ WF_vars(TimerStep)

HandleTouched == life.db # "open" \/ life.redis # "open"
RedisClosed == life.redis \in {"closed", "forced"}

\* C30 as stated: the process exits with code 1 on any close error, that of
\* the cache handle included.
C30_ExitOneOnAnyCloseError ==
  (life.exit # <<>> /\ (life.db = "failed" \/ life.redis = "forced")) =>
    life.exit = <<1>>

ShutdownSafe ==
  /\ HandleTouched => (life.server = "closed" /\ life.inflight = 0)
  /\ life.exit # <<>> => life.clock <= ForceTimeout
  /\ (life.db = "closed" /\ RedisClosed) => life.exit = <<0>>
  /\ (life.exit = <<0>> /\ life.server # "none") =>
       (life.db = "closed" /\ RedisClosed)
  /\ life.db = "failed" => life.exit = <<1>>
  /\ life.exit = <<1>> => (life.db = "failed" \/ life.timedout)

\* C30: after a signal the two handles are closed only once the HTTP server
\* has closed with no request left in flight, and the process exits within
\* the 10 s grace period: with code 0 when the store handle was closed and the
\* cache handle was closed (by quit, or by the forced disconnect closeRedis
\* falls back to when quit fails), with code 1 when closing the store handle
\* failed or when the timeout fired first.
C30_ShutdownWithinGrace ==
  [](ShutdownSafe) /\ (life.stage = "closing" ~> life.exit # <<>>)

\* C30 witness: the server drained two requests, the store handle closed,
\* quit failed and the cache handle was disconnected: exit code 0 within the
\* grace period
C30_Witness ==
  /\ life.exit = <<0>> /\ life.server = "closed"
  /\ life.db = "closed" /\ life.redis = "forced"
  /\ life.clock > 0 /\ life.clock < ForceTimeout

(* --------------------------------------------------------- readinessCheck *)
\* A readiness request. isInitialized / client: the two handles as the
\* request finds them; query / pong: what the round trips answer ("throws":
\* the call rejects); db / redis: the two health reports, <<>> until made
Readiness(isInitialized, client) ==
  [stage |-> "db", isInitialized |-> isInitialized, client |-> client,
   query |-> "-", pong |-> "-", db |-> <<>>, redis |-> <<>>,
   status |-> 0, success |-> FALSE]

QueryOutcomes == {"ok", "throws"}
PingOutcomes == {"PONG", "LOADING", "throws"}

\* checkDatabaseHealth: not initialised -> unhealthy without a query;
\* SELECT 1 answered -> healthy; the catch block -> unhealthy
CheckDatabaseHealth(isInitialized, query) ==
  [healthy |-> isInitialized /\ query = "ok",
   asked |-> isInitialized]

\* faulty variant: any reply to ping counts
PingAnswered(pong) == pong # "throws"

\* if (pong === 'PONG')
PingHealthy(pong) == pong = "PONG"

\* checkRedisHealth: no client -> unhealthy without a ping; PONG -> healthy;
\* another reply or the catch block -> unhealthy
CheckRedisHealth(client, pong) ==
  [healthy |-> client /\ PingHealthy(pong), asked |-> client]

\* const dbHealth = await checkDatabaseHealth()
HealthDb(query) ==
  /\ life.stage = "db"
  /\ life' = [life EXCEPT !.stage = "redis",
                          !.query = IF life.isInitialized THEN query ELSE "-",
                          !.db = <<CheckDatabaseHealth(life.isInitialized, query)>>]
  /\ UNCHANGED reqvars

\* const redisHealth = await checkRedisHealth()
HealthRedis(pong) ==
  /\ life.stage = "redis"
  /\ life' = [life EXCEPT !.stage = "respond",
                          !.pong = IF life.client THEN pong ELSE "-",
                          !.redis = <<CheckRedisHealth(life.client, pong)>>]
  /\ UNCHANGED reqvars

\* isReady = dbHealth.healthy && redisHealth.healthy;
\* res.status(isReady ? 200 : 503).json({success: isReady, ...})
HealthRespond ==
  /\ life.stage = "respond"
  /\ LET isReady == life.db[1].healthy /\ life.redis[1].healthy
     IN life' = [life EXCEPT !.stage = "answered",
                             !.status = IF isReady THEN 200 ELSE 503,
                             !.success = isReady]
  /\ UNCHANGED reqvars

\* the next readiness request, with the handles in any state
HealthAgain ==
  /\ life.stage = "answered"
  /\ \E i, c \in BOOLEAN : life' = Readiness(i, c)
  /\ UNCHANGED reqvars

InitHealth ==
  /\ InitStore
  /\ cache = [k \in Keys |-> {}]
  /\ InitRequests
  /\ \E i, c \in BOOLEAN : life = Readiness(i, c)

NextHealth ==
  \/ (\E q \in QueryOutcomes : HealthDb(q))
  \/ (\E g \in PingOutcomes : HealthRedis(g))
  \/ HealthRespond
  \/ HealthAgain
SpecHealth == InitHealth /\ [][NextHealth]_vars

\* C31: the two health checks always return a report, unhealthy when the
\* handle is not initialised (no round trip is made) or the round trip fails;
\* the readiness check answers 200 with success = true exactly when both
\* reports are healthy, and 503 otherwise.
C31_ReadyIffBothHealthy ==
  /\ life.stage \in {"redis", "respond", "answered"} =>
       /\ Len(life.db) = 1
       /\ life.db[1].healthy = (life.isInitialized /\ life.query = "ok")
  /\ life.stage \in {"respond", "answered"} =>
       /\ Len(life.redis) = 1
       /\ life.redis[1].healthy = (life.client /\ life.pong = "PONG")
  /\ life.stage = "answered" =>
       /\ life.status \in {200, 503}
       /\ (life.status = 200) = (life.db[1].healthy /\ life.redis[1].healthy)
       /\ life.success = (life.status = 200)

\* C31 witness: the store answered, the cache replied to ping with something
\* other than PONG, and the readiness check answered 503
C31_Witness ==
  /\ life.stage = "answered" /\ life.query = "ok" /\ life.pong = "LOADING"
  /\ life.status = 503 /\ ~life.success

(* ------------------------------------------------------ concurrent updates *)
\* the service methods that write through BaseRepository.update
UpdateNames ==
  {"updateUser", "deactivateUser", "updateTask", "updateStatus", "assignTask",
   "unassignTask"}

\* the calls of p and q are updates of the same record
SameRecord(p, q) ==
  /\ p # q
  /\ op[p].name \in UpdateNames /\ op[q].name \in UpdateNames
  /\ IsUserOp(op[p]) = IsUserOp(op[q])
  /\ TargetId(op[p]) = TargetId(op[q])

\* SpecUpdates: updates issued by the calls of Procs interleave step by step
MaxUpdates == 2
\* the updates of one user and of one task
UpdateOps == {o \in Ops : o.name \in UpdateNames /\ TargetId(o) \in {"u1", "t1"}}
StartUpdate == \E p \in Procs, o \in UpdateOps : nops < MaxUpdates /\ Begin(p, o)
RunUpdates ==
  \E p \in Procs :
    \/ GetStep(p, TRUE) \/ ProduceStep(p, TRUE) \/ SetStep(p, TRUE)
    \/ PreStep(p, TRUE) \/ UuCheckStep(p, TRUE) \/ LoadStep(p, TRUE)
    \/ SaveStep(p, TRUE) \/ InvStep(p, TRUE)
NextUpdates == StartUpdate \/ RunUpdates
SpecUpdates == Init /\ [][NextUpdates]_vars

\* one step of two updates of the same live record
LastCommitWins(p, q) ==
  LET o == op[p]
      merged == SavedRow(o, loc[p].ent[1])
  IN (SameRecord(p, q) /\ TargetLive(o) /\ pc[p] = "save" /\ pc'[p] # "save") =>
       \* save is refused by a constraint on another record only
       /\ gh'[p].wrote \/ Rejected(o, TargetId(o), merged)
       \* the commit stores the entity this call merged, whatever the
       \* other call committed before
       /\ gh'[p].wrote =>
            IF IsUserOp(o) THEN users'[o.uid] = merged ELSE tasks'[o.tid] = merged

\* C32: two concurrent updates of the same live record both get through
\* save (no version conflict; only a constraint on another record refuses a
\* save), and each commit replaces the stored row by the entity its call
\* merged, so after both the store holds the later commit's entity.
C32_LastCommitWins == [][\A p, q \in Procs : LastCommitWins(p, q)]_vars

\* C32 witness: both calls loaded u1 before either saved; p1 changed the
\* email, p2 the status; p2 committed last and the store holds its entity,
\* without p1's email
C32_Witness ==
  /\ SameRecord("p1", "p2") /\ op["p1"].name = "updateUser"
  /\ op["p1"].email # Unset /\ op["p2"].status # Unset
  /\ gh["p1"].wrote /\ gh["p2"].wrote
  /\ pc["p1"] = "done" /\ pc["p2"] = "done"
  /\ res["p1"].out = "ok" /\ res["p2"].out = "ok"
  /\ users[op["p1"].uid] = SavedRow(op["p2"], loc["p2"].ent[1])
  /\ users[op["p1"].uid].email # Normalize(op["p1"].email)

(* ------------------------------------------------------------ unassignTask *)
\* TaskRepository.findUnassigned: rows matching {assigneeId: IsNull()}
Unassigned ==
  SelectSeq(TaskOrder, LAMBDA t : LiveTask(t) /\ tasks[t].assigneeId = NoUser)

InSeq(x, s) == \E i \in DOMAIN s : s[i] = x

\* C33: once unassignTask of a live task that had an owner has returned
\* successfully, the stored task has no owner, findUnassigned lists it and
\* findByAssignee of the former owner does not.
C33_UnassignClearsOwner ==
  \A p \in Procs :
    (/\ op[p].name = "unassignTask" /\ pc[p] = "done" /\ res[p].out = "ok"
     /\ loc[p].pre # <<>> /\ PreOf(p).assigneeId # NoUser) =>
      /\ tasks[op[p].tid].assigneeId = NoUser
      /\ InSeq(op[p].tid, Unassigned)
      /\ ~InSeq(op[p].tid, AssignedTo(PreOf(p).assigneeId))

(* ------------------------------------------------------------- findOverdue *)
\* enum TaskStatus
AllTaskStatuses == {"TODO", "IN_PROGRESS", "DONE", "ARCHIVED"}

\* the clock runs over 1..MaxNow; a due date is absent or a point of it
MaxNow == 2
DueDates == {<<>>, <<1>>}

\* task rows with their due date column
DatedRows ==
  [st : {"live", "deleted"}, assigneeId : {NoUser, "u1"},
   status : AllTaskStatuses, createdById : {"u1"}, dueDate : DueDates]

\* dueDate: LessThan(now); a null due date matches no comparison
DueBefore(now) ==
  {t \in Tasks : tasks[t].dueDate # <<>> /\ tasks[t].dueDate[1] < now}

\* repository.count({where: {assigneeId: userId, dueDate: LessThan(now),
\* status: TaskStatus.TODO || TaskStatus.IN_PROGRESS}}): the status operand
\* evaluates to TaskStatus.TODO
OverdueCount(u, due) ==
  Cardinality({t \in Tasks : LiveTask(t) /\ tasks[t].assigneeId = u /\ t \in due
                              /\ tasks[t].status = "TODO"})

\* a call that reads the clock once and answers from the store in one query
DatedRead(p, name, u, now, val) ==
  /\ Idle(p)
  /\ op' = [op EXCEPT ![p] = MkOp(name, u, "-", "-", Unset, Unset, Unset, TRUE)]
  /\ loc' = [loc EXCEPT ![p] = [NoLoc EXCEPT !.ent = <<now>>]]
  /\ res' = [res EXCEPT ![p] = [out |-> "ok", val |-> <<val>>]]
  /\ pc' = [pc EXCEPT ![p] = "done"]
  /\ gh' = [gh EXCEPT ![p] = NoGh]
  /\ todo' = [todo EXCEPT ![p] = <<>>]
  /\ UNCHANGED <<users, tasks, cache, produced, nops, life>>

\* TaskRepository.findOverdue with the default page and limit
FindOverdue(p, now) ==
  DatedRead(p, "findOverdue", "-", now,
            FindAll(Overdue(DueBefore(now)), DefaultPage, DefaultLimit))

\* the overdue count of TaskRepository.getUserTaskStats
StatsOverdue(p, u, now) ==
  DatedRead(p, "overdueCount", u, now, OverdueCount(u, DueBefore(now)))

InitOverdue ==
  /\ users \in InitUsers
  /\ tasks \in [Tasks -> DatedRows]
  /\ cache = [k \in Keys |-> {}]
  /\ InitCalls

NextOverdue ==
  \/ \E now \in 1..MaxNow : FindOverdue("p1", now)
  \/ \E now \in 1..MaxNow : StatsOverdue("p1", "u1", now)
SpecOverdue == InitOverdue /\ [][NextOverdue]_vars

\* the live tasks due before now whose status is TODO or IN_PROGRESS
OpenAndDue(now) ==
  {t \in Tasks : /\ tasks[t].st = "live"
                 /\ tasks[t].dueDate # <<>> /\ tasks[t].dueDate[1] < now
                 /\ tasks[t].status \in {"TODO", "IN_PROGRESS"}}

\* C34: findOverdue returns exactly the live tasks whose due date lies before
\* now and whose status is TODO or IN_PROGRESS; the overdue count of
\* getUserTaskStats is the number of those tasks the user owns.
C34_OverdueIsOpenAndDue ==
  \A p \in Procs :
    /\ (Done(p) /\ op[p].name = "findOverdue") =>
         LET data == res[p].val[1].data
         IN {data[i].id : i \in DOMAIN data} = OpenAndDue(loc[p].ent[1])
    /\ (Done(p) /\ op[p].name = "overdueCount") =>
         res[p].val[1] =
           Cardinality({t \in OpenAndDue(loc[p].ent[1]) :
                          tasks[t].assigneeId = op[p].uid})

(* ------------------------------------------- copies of a user in the cache *)
\* the user objects a cached task carries in its relations
RelationsOf(v) ==
  {v.assignee[i] : i \in DOMAIN v.assignee} \cup {v.createdBy[i] : i \in DOMAIN v.createdBy}

\* the user objects the cache entry under key k carries
CopiesIn(k) ==
  IF cache[k] = {} THEN {}
  ELSE LET v == EntryOf(k).val
       IN CASE k.kind = "user" -> {v}
            [] k.kind = "task" -> RelationsOf(v)
            [] k.kind = "user_tasks" ->
                 UNION {RelationsOf(v.data[i]) : i \in DOMAIN v.data}
            [] OTHER -> {}

\* C35: once a mutation of user U has returned, every copy of U left in the
\* cache (under user:{U}, in the relations of a cached task:{T}, in a cached
\* task list of any owner) is the copy a read of the current store gives.
C35_NoStaleCopyOfUser ==
  \A p \in Procs :
    (Succeeded(p) /\ op[p].name \in UserWrites) =>
      \A k \in Keys : \A c \in CopiesIn(k) :
        c.id = op[p].uid =>
          /\ LiveUser(c.id)
          /\ c = UserToJSON(UserOf(c.id, users[c.id]))

(* ------------------------------------- getUserTaskStats, query by query *)
\* TaskRepository.getUserTaskStats awaits five count queries one after the
\* other, outside any transaction; loc.ent holds the counts read so far
NoCounts == [total |-> 0, todo |-> 0, inProgress |-> 0, done |-> 0, overdue |-> 0]
CountStages == <<"n_total", "n_todo", "n_inProgress", "n_done", "n_overdue">>

BeginCounts(p, u) ==
  /\ Idle(p)
  /\ op' = [op EXCEPT ![p] =
              MkOp("repoGetUserTaskStats", u, "-", "-", Unset, Unset, Unset, TRUE)]
  /\ loc' = [loc EXCEPT ![p] = [NoLoc EXCEPT !.ent = <<NoCounts>>]]
  /\ res' = [res EXCEPT ![p] = NoRes]
  /\ pc' = [pc EXCEPT ![p] = CountStages[1]]
  /\ gh' = [gh EXCEPT ![p] = NoGh]
  /\ todo' = [todo EXCEPT ![p] = <<>>]
  /\ UNCHANGED <<users, tasks, cache, produced, nops, life>>

\* one awaited count; now is what new Date() gives before the last one
CountStep(p, now) ==
  /\ \E i \in DOMAIN CountStages : pc[p] = CountStages[i]
  /\ LET u == op[p].uid
         c == loc[p].ent[1]
         d == CASE pc[p] = "n_total" ->
                     [c EXCEPT !.total =
                        Cardinality({t \in Tasks : LiveTask(t) /\ tasks[t].assigneeId = u})]
                [] pc[p] = "n_todo" -> [c EXCEPT !.todo = CountWhere(u, "TODO")]
                [] pc[p] = "n_inProgress" ->
                     [c EXCEPT !.inProgress = CountWhere(u, "IN_PROGRESS")]
                [] pc[p] = "n_done" -> [c EXCEPT !.done = CountWhere(u, "DONE")]
                [] OTHER -> [c EXCEPT !.overdue = OverdueCount(u, DueBefore(now))]
     IN /\ loc' = [loc EXCEPT ![p].ent = <<d>>]
        /\ IF pc[p] = "n_overdue"
             THEN /\ pc' = [pc EXCEPT ![p] = "done"]
                  /\ res' = [res EXCEPT ![p] = [out |-> "ok", val |-> <<d>>]]
             ELSE /\ pc' = [pc EXCEPT ![p] =
                              CountStages[1 + CHOOSE i \in DOMAIN CountStages :
                                                   pc[p] = CountStages[i]]]
                  /\ UNCHANGED res
  /\ UNCHANGED <<users, tasks, cache, op, todo, gh, produced, nops, life>>

\* SpecCounts: p1 reads the statistics of u1 while p2 runs updateStatus and
\* assignTask calls
MaxStatWrites == 1
StatWrites == {o \in Ops : o.name \in {"updateStatus", "assignTask"}}
CountedRows ==
  [st : {"live"}, assigneeId : {NoUser, "u1"},
   status : {"TODO", "IN_PROGRESS", "DONE"}, createdById : {"u1"},
   dueDate : DueDates]

InitCounts ==
  /\ users \in InitUsers
  /\ tasks \in [Tasks -> CountedRows]
  /\ cache = [k \in Keys |-> {}]
  /\ InitCalls

StartStatWrite == \E o \in StatWrites : nops < MaxStatWrites /\ Begin("p2", o)

NextCounts ==
  \/ BeginCounts("p1", "u1")
  \/ (\E now \in 1..MaxNow : CountStep("p1", now))
  \/ StartStatWrite
  \/ LoadStep("p2", TRUE)
  \/ SaveStep("p2", TRUE)
  \/ InvStep("p2", TRUE)
SpecCounts == InitCounts /\ [][NextCounts]_vars

\* C36: every result of getUserTaskStats satisfies
\* todo + inProgress + done <= total and overdue <= todo + inProgress, also
\* when tasks change while its count queries run.
C36_CountsConsistent ==
  \A p \in Procs :
    (Done(p) /\ op[p].name = "repoGetUserTaskStats") =>
      LET c == res[p].val[1]
      IN /\ c.todo + c.inProgress + c.done <= c.total
         /\ c.overdue <= c.todo + c.inProgress

(* ---------------------------------------------------------------- bootstrap *)
\* the process from `void bootstrap()` on: initializeDatabase() with its
\* default maxRetries on a fresh handle; redis: the state of the ioredis
\* client ("none": not created); listening: the HTTP server accepts
\* connections; exit: the code given to process.exit, if it was called
Bootstrap ==
  [stage |-> "test", maxRetries |-> DefaultMaxRetries, retries |-> 0,
   attempts |-> 0, isInitialized |-> FALSE, was |-> FALSE, waits |-> <<>>,
   calls |-> 1, redis |-> "none", listening |-> FALSE, exit |-> <<>>]

\* faulty variant: start-up waits for the client's ready event
AwaitsReady(redis) == redis # "ready"

\* initializeRedis() returns the client as soon as it is constructed;
\* nothing awaits its connect or ready event
AwaitsRedis(redis) == FALSE

\* initializeServices after initializeDatabase returned: initializeRedis()
InitializeRedis ==
  /\ life.stage = "returned" /\ life.redis = "none"
  /\ life' = [life EXCEPT !.redis = "connecting", !.stage = "services"]
  /\ UNCHANGED reqvars

\* bootstrap: startServer(); app.listen succeeds, or the server emits
\* 'error' (the port is in use) and its handler calls process.exit(1)
StartServer(bound) ==
  /\ life.stage = "services" /\ ~AwaitsRedis(life.redis)
  /\ life' = IF bound
               THEN [life EXCEPT !.stage = "listening", !.listening = TRUE]
               ELSE [life EXCEPT !.stage = "exited", !.exit = <<1>>]
  /\ UNCHANGED reqvars

\* initializeDatabase threw: initializeServices rethrows, bootstrap's catch
\* block calls process.exit(1)
BootstrapFails ==
  /\ life.stage = "thrown"
  /\ life' = [life EXCEPT !.stage = "exited", !.exit = <<1>>]
  /\ UNCHANGED reqvars

\* the ioredis client in the background: the connection gets ready, or is
\* lost / given up by retryStrategy; a lost client may reconnect
RedisEvent ==
  /\ life.redis \in {"connecting", "ready"}
  /\ life.stage # "exited"
  /\ \E s \in {"ready", "connecting", "end"} :
       /\ s # life.redis
       /\ life' = [life EXCEPT !.redis = s]
  /\ UNCHANGED reqvars

InitBootstrap ==
  /\ InitStore
  /\ cache = [k \in Keys |-> {}]
  /\ InitRequests
  /\ life = Bootstrap

BootstrapStep ==
  \/ BootStep
  \/ InitializeRedis
  \/ (\E bound \in BOOLEAN : StartServer(bound))
  \/ BootstrapFails
NextBootstrap == BootstrapStep \/ RedisEvent
\* the event loop runs every continuation and timer of bootstrap; nothing
\* is assumed about when the cache connects
SpecBootstrap == InitBootstrap /\ [][NextBootstrap]_vars /\ WF_vars(BootstrapStep)

BootstrapSafe ==
  \* listening only after initializeDatabase succeeded
  /\ life.listening => life.isInitialized /\ life.retries < life.maxRetries
  /\ life.stage \in {"test", "connect", "wait", "thrown"} =>
       ~life.listening /\ life.redis = "none"
  \* the store failed after all retries: exit code 1, the server never listened
  /\ (life.stage = "exited" /\ ~life.isInitialized) =>
       /\ life.attempts = life.maxRetries
       /\ life.exit = <<1>>
       /\ ~life.listening
  /\ life.exit # <<>> => life.exit # <<0>> /\ ~life.listening

\* C37: the server listens only after initializeDatabase succeeded; when
\* every connection attempt fails the process exits with a non-zero code and
\* never listens; once the store is connected start-up completes (the server
\* listens, or exits because the port cannot be bound) whatever the state of
\* the cache connection.
C37_StartupOrder ==
  /\ [](BootstrapSafe)
  /\ (life.stage = "returned" ~> life.stage \in {"listening", "exited"})
  /\ (life.stage = "thrown" ~> life.stage = "exited")

\* C37 witness: the server listens while the cache client is still connecting
C37_Witness ==
  life.stage = "listening" /\ life.listening /\ life.redis = "connecting"

(* ------------------------------------------------ frame of an invalidation *)
\* the keys the invalidation command c may remove
FrameOf(c) ==
  IF c.key.kind = "task" THEN {TaskKey(c.key.id)} ELSE UserKeys(c.key.id)

\* C38: each command of invalidateUserCache(A) removes entries under
\* user:{A}, task_stats:{A} and user_tasks:{A}:* only, the command of
\* invalidateTaskCache(T) under task:{T} only; every other entry (another
\* user's, another task's) is left as it was.
C38_InvalidationFrame ==
  [][\A p \in Procs :
       (pc[p] = "inv" /\ todo[p] # <<>> /\ todo'[p] # todo[p]) =>
         \A k \in Keys \ FrameOf(Head(todo[p])) : cache'[k] = cache[k]]_vars

\* C38 witness: a user mutation has returned, its invalidation removed an
\* entry of that user, and a task list of another user is still cached
C38_Witness ==
  \E p \in Procs :
    /\ Succeeded(p) /\ op[p].name \in UserWrites
    /\ gh[p].removed \cap UserKeys(op[p].uid) # {}
    /\ \E k \in Keys : k.kind = "user_tasks" /\ k.id # op[p].uid /\ cache[k] # {}

(* ------------------------------------------- CacheService.set then get *)
\* A JSON value: its type and its JSON text (for a string, the characters)
JsonValue(t, s) == [t |-> t, s |-> s]
JsonNull == JsonValue("null", "null")
NumberTexts == {"123"}
ObjectTexts == {"{a:1}"}
StringTexts == {"hello", "123", "true", "null", ""}
JsonValues ==
  {JsonValue("string", s) : s \in StringTexts}
    \cup {JsonValue("number", s) : s \in NumberTexts}
    \cup {JsonValue("boolean", "true"), JsonNull}
    \cup {JsonValue("object", s) : s \in ObjectTexts}

\* set: typeof value === 'string' ? value : JSON.stringify(value)
StoredText(v) == v.s

\* JSON.parse(text) on the texts of the model: <<value>>, or <<>> when it
\* throws a SyntaxError
JsonParse(text) ==
  IF text \in NumberTexts THEN <<JsonValue("number", text)>>
  ELSE IF text \in {"true", "false"} THEN <<JsonValue("boolean", text)>>
  ELSE IF text = "null" THEN <<JsonNull>>
  ELSE IF text \in ObjectTexts THEN <<JsonValue("object", text)>>
  ELSE <<>>

\* get: null for a missing key and for an empty text (!value); otherwise
\* the parsed text, or the raw string when parsing throws
GetValue(k) ==
  IF cache[k] = {} THEN JsonNull
  ELSE LET text == EntryOf(k).val
       IN IF text = "" THEN JsonNull
          ELSE IF JsonParse(text) # <<>> THEN JsonParse(text)[1]
          ELSE JsonValue("string", text)

RoundTripKeys == {UserKey("u1"), TaskKey("t1")}

\* p1: cacheService.set(k, v, ttl), answered; a get of an earlier round is
\* forgotten
JsonSet(k, v, ttl) ==
  /\ Idle("p1") /\ Idle("p2")
  /\ cache' = [cache EXCEPT ![k] = {[val |-> StoredText(v), ttl |-> ttl]}]
  /\ op' = [op EXCEPT !["p1"] = MkOp("set", "-", "-", "-", Unset, Unset, Unset, TRUE),
                      !["p2"] = NoOp]
  /\ loc' = [loc EXCEPT !["p1"] = [NoLoc EXCEPT !.key = k, !.val = <<v>>],
                        !["p2"] = NoLoc]
  /\ res' = [res EXCEPT !["p1"] = [out |-> "ok", val |-> <<TRUE>>], !["p2"] = NoRes]
  /\ pc' = [pc EXCEPT !["p1"] = "done", !["p2"] = "idle"]
  /\ UNCHANGED <<users, tasks, todo, gh, produced, nops, life>>

\* p2: cacheService.get(k) of the key p1 has set, answered
JsonGet ==
  /\ Done("p1") /\ op["p1"].name = "set" /\ pc["p2"] = "idle"
  /\ op' = [op EXCEPT !["p2"] = MkOp("get", "-", "-", "-", Unset, Unset, Unset, TRUE)]
  /\ loc' = [loc EXCEPT !["p2"] = [NoLoc EXCEPT !.key = loc["p1"].key]]
  /\ res' = [res EXCEPT !["p2"] = [out |-> "ok", val |-> <<GetValue(loc["p1"].key)>>]]
  /\ pc' = [pc EXCEPT !["p2"] = "done"]
  /\ UNCHANGED <<users, tasks, cache, todo, gh, produced, nops, life>>

NextJson ==
  \/ \E k \in RoundTripKeys, v \in JsonValues : JsonSet(k, v, TTL_SHORT)
  \/ JsonGet
SpecJson == Init /\ [][NextJson]_vars

\* C39: for every JSON value v, a get of the key that follows set(key, v, ttl)
\* returns a value equal to v, the strings "123", "true", "null" and ""
\* included.
C39_SetGetRoundTrip ==
  (Done("p2") /\ op["p2"].name = "get" /\ op["p1"].name = "set") =>
    res["p2"].val[1] = loc["p1"].val[1]

====
